---------------------------- MODULE Spec2Model ----------------------------
(***************************************************************************)
(* Model of the stock-tracker decision cycle: the scheduler                *)
(* (src/lib/scheduler.ts), the cron and manual HTTP entry points           *)
(* (src/app/api/.../route.ts) and the cycle orchestrator runDecisions with *)
(* its risk evaluator, decision fusion and trade executor                  *)
(* (src/lib/ai-decision.ts).                                               *)
(*                                                                         *)
(* Node runs every handler on one thread: a handler runs without           *)
(* interruption up to its next await, and other handlers run while it      *)
(* waits.  Each action below is therefore one await-to-await segment of    *)
(* the code.  Prices and costs are integers in hundredths of the currency  *)
(* unit (40.80 is 4080); NoValue stands for null / SQL NULL.               *)
(***************************************************************************)
EXTENDS Integers, Sequences, FiniteSets, TLC

(***************************************************************************)
(* Bounds of the model.                                                    *)
(***************************************************************************)
\* Invocation slots: how many handlers may be in flight at the same time.
NumSlots == 2
\* How many handler invocations (ticks and HTTP requests) a behaviour holds.
MaxStarts == 2
\* How many times the clock advances by AdvanceMin minutes.
MaxAdvances == 2
\* The longest series of price rows drawn around the five-point threshold of
\* the indicator calculator.
ShortLen == 6
\* The longest price series handed to computeRSI on its own.
RsiLen == 16
\* The longest news text handed to the sentiment scorer, in sentences.
MaxSentences == 4
\* Startup timeouts pending at once.
MaxTimers == 2

(***************************************************************************)
(* Program constants.                                                      *)
(***************************************************************************)
STOP_LOSS_PCT == -15
MAX_POSITION_VALUE_USD == 50000
DECISION_COOLDOWN_MIN == 30
DAILY_TRADE_LIMIT == 6
\* Minutes the clock moves per Advance step: half a cooldown.
AdvanceMin == DECISION_COOLDOWN_MIN \div 2

XIAOMI_SYMBOL == "01810.HK"
MSFT_SYMBOL == "MSFT"
\* "st-symbol-settings" rows, ORDER BY symbol.
AllSymbols == <<XIAOMI_SYMBOL, MSFT_SYMBOL>>
Symbols == {AllSymbols[k] : k \in 1..Len(AllSymbols)}

NoValue == 0
Slots == 1..NumSlots

Min(a, b) == IF a <= b THEN a ELSE b
Max(a, b) == IF a >= b THEN a ELSE b
Abs(a) == IF a < 0 THEN -a ELSE a

\* Currency a quote of the symbol comes in (row default of runDecisions).
CurrencyOf(symbol) == IF symbol = XIAOMI_SYMBOL THEN "HKD" ELSE "USD"

\* fxRate of checkRiskConstraints, in thousandths.
FxRateMilli(currency) ==
  IF currency = "HKD" THEN 128 ELSE IF currency = "CNY" THEN 138 ELSE 1000


(***************************************************************************)
(* Risk evaluator: the two flags checkRiskConstraints computes from the    *)
(* position alone.  pnlPct = (price - cost) / cost * 100 is compared       *)
(* without division; it is computed in doubles, which matters when the     *)
(* price is exactly 15% below the cost.                                    *)
(***************************************************************************)
\* The pairs <<currentPrice, costPrice>> in hundredths, for costs from 40.00
\* to 52.00, at which the price is exactly 15% below the cost and the double
\* ((currentPrice - costPrice) / costPrice) * 100 comes out just below -15
\* (for 40.80 and 48: -15.000000000000005).
PnlRoundsBelowStopLoss ==
  {<<3417, 4020>>, <<3451, 4060>>, <<3519, 4140>>, <<3536, 4160>>, <<3587, 4220>>,
   <<3621, 4260>>, <<3655, 4300>>, <<3672, 4320>>, <<3723, 4380>>, <<3740, 4400>>,
   <<3757, 4420>>, <<3791, 4460>>, <<3842, 4520>>, <<3876, 4560>>, <<3944, 4640>>,
   <<3961, 4660>>, <<4012, 4720>>, <<4080, 4800>>, <<4097, 4820>>, <<4148, 4880>>,
   <<4165, 4900>>, <<4182, 4920>>, <<4216, 4960>>, <<4267, 5020>>, <<4301, 5060>>,
   <<4369, 5140>>, <<4386, 5160>>}

StopLossTriggered(currentPrice, costPrice, shares) ==
  /\ shares > 0
  /\ costPrice > 0
  /\ currentPrice > 0
  /\ \/ (currentPrice - costPrice) * 100 < STOP_LOSS_PCT * costPrice
     \/ <<currentPrice, costPrice>> \in PnlRoundsBelowStopLoss

\* positionValueUsd = currentPrice * shares * fxRate, in hundredths of a dollar
\* (split so that no intermediate product leaves 32 bits).
PositionValueUsd(currentPrice, currency, shares) ==
  LET a == currentPrice * shares
      f == FxRateMilli(currency)
  IN (a \div 1000) * f + ((a % 1000) * f) \div 1000

MaxPositionReached(currentPrice, currency, shares) ==
  PositionValueUsd(currentPrice, currency, shares) >= MAX_POSITION_VALUE_USD * 100

\* cooldownActive: the newest "st-decisions" row of the symbol is younger than
\* DECISION_COOLDOWN_MIN minutes; false when there is none.
LastDecisionAt(table, symbol) ==
  LET at == {table[k].createdAt : k \in {j \in 1..Len(table) : table[j].symbol = symbol}}
  IN IF at = {} THEN -1 ELSE CHOOSE t \in at : \A u \in at : u <= t

CooldownActive(table, symbol, clock) ==
  LET last == LastDecisionAt(table, symbol)
  IN last >= 0 /\ clock - last < DECISION_COOLDOWN_MIN

\* dailyTradeCount: COUNT(*) of the symbol's "st-trades" rows of the current day
\* (a behaviour of the model stays within one calendar day).
DailyTradeCount(table, seeded, symbol) ==
  seeded[symbol] + Cardinality({k \in 1..Len(table) : table[k].symbol = symbol})

(***************************************************************************)
(* Fallback rule engine.                                                   *)
(***************************************************************************)
\* applyCostBasisProtection: the signal delta. techSupport stands for
\* (bollingerPosition < 0.3 or rsi14 < 40), which comes from the price history.
CostBasisDelta(currentPrice, costPrice, shares, techSupport) ==
  IF costPrice <= 0 \/ shares <= 0 THEN 0
  ELSE IF currentPrice * 100 < 95 * costPrice /\ techSupport THEN 15
  ELSE IF currentPrice * 100 > 103 * costPrice THEN -10
  ELSE 0

\* Factor 3 of analyzeSignals: the position P&L band.
PnlBandDelta(currentPrice, costPrice) ==
  IF costPrice <= 0 \/ currentPrice <= 0 THEN 0
  ELSE LET d == (currentPrice - costPrice) * 100
       IN IF d > 30 * costPrice THEN -15
          ELSE IF d > 10 * costPrice THEN 5
          ELSE IF d < -20 * costPrice THEN 10
          ELSE IF d < -10 * costPrice THEN 5
          ELSE 0

\* signalStrength before the max-position override, in tenths of a point.
\* ext is the sum, in tenths, of the contributions that come from the
\* collaborators' data (news sentiment, the indicator vector, quote
\* fundamentals, recent price history), which need not be whole.
SignalStrength(currentPrice, costPrice, shares, ext, techSupport) ==
  ext + 10 * CostBasisDelta(currentPrice, costPrice, shares, techSupport)
      + 10 * PnlBandDelta(currentPrice, costPrice)

\* Math.floor of a number given in tenths.
Floor(tenths) == tenths \div 10

\* The max-position override of analyzeSignals.
ClampForMaxPosition(maxPositionReached, signalStrength) ==
  IF maxPositionReached /\ signalStrength > 0
    THEN Min(signalStrength, 0) ELSE signalStrength

\* Variant of the final action logic that rounds the signal up, not down.
FinalActionRoundingUp(symbol, signalStrength, isQuarterEnd) ==
  IF symbol = MSFT_SYMBOL
    THEN IF isQuarterEnd /\ signalStrength > 0
           THEN [action |-> "BUY", confidence |-> 80]
           ELSE [action |-> IF signalStrength < -250 THEN "SELL" ELSE "HOLD",
                 confidence |-> 60]
    ELSE LET buyThreshold == IF symbol = XIAOMI_SYMBOL THEN 80 ELSE 150
             sellThreshold == IF symbol = XIAOMI_SYMBOL THEN -80 ELSE -150
             up == Floor(Abs(signalStrength) + 9)
         IN IF signalStrength > buyThreshold
              THEN [action |-> "BUY", confidence |-> Min(95, 55 + up)]
            ELSE IF signalStrength < sellThreshold
              THEN [action |-> "SELL", confidence |-> Min(95, 55 + up)]
            ELSE [action |-> "HOLD", confidence |-> 50 + up]

\* The final action logic of analyzeSignals on the clamped signal.
FinalAction(symbol, signalStrength, isQuarterEnd) ==
  IF symbol = MSFT_SYMBOL
    THEN IF isQuarterEnd /\ signalStrength > 0
           THEN [action |-> "BUY", confidence |-> 80]
           ELSE [action |-> IF signalStrength < -250 THEN "SELL" ELSE "HOLD",
                 confidence |-> 60]
    ELSE LET buyThreshold == IF symbol = XIAOMI_SYMBOL THEN 80 ELSE 150
             sellThreshold == IF symbol = XIAOMI_SYMBOL THEN -80 ELSE -150
         IN IF signalStrength > buyThreshold
              THEN [action |-> "BUY",
                    confidence |-> Min(95, 55 + Floor(signalStrength))]
            ELSE IF signalStrength < sellThreshold
              THEN [action |-> "SELL",
                    confidence |-> Min(95, 55 + Floor(Abs(signalStrength)))]
            ELSE [action |-> "HOLD",
                  confidence |-> 50 + Floor(Abs(signalStrength))]

\* analyzeSignals: the decision of the fallback path. mdSource is the source
\* key of the returned marketData ("" when the object has none).
analyzeSignals(symbol, currentPrice, costPrice, shares, ext, techSupport, isQuarterEnd, riskCheck) ==
  IF riskCheck.stopLossTriggered
    THEN [symbol |-> symbol, action |-> "SELL", confidence |-> 90,
          mdSource |-> "fallback_rules", mdError |-> ""]
    ELSE LET s == ClampForMaxPosition(riskCheck.maxPositionReached,
                    SignalStrength(currentPrice, costPrice, shares, ext, techSupport))
             f == FinalAction(symbol, s, isQuarterEnd)
         IN [symbol |-> symbol, action |-> f.action, confidence |-> f.confidence,
             mdSource |-> "", mdError |-> ""]

(***************************************************************************)
(* External-model path.                                                    *)
(***************************************************************************)
\* Ways decideWithDeepSeek throws.
LlmFailures == {"no_api_key", "non_2xx", "error_body", "empty_content",
                "unparsable_json", "invalid_action", "timeout"}

\* clampConfidence
clampConfidence(value) == Max(0, Min(100, value))

\* decideWithDeepSeek's return value for a valid payload.
DeepSeekDecision(symbol, action, confidenceRaw) ==
  [symbol |-> symbol, action |-> action,
   confidence |-> clampConfidence(confidenceRaw),
   mdSource |-> "deepseek", mdError |-> ""]

\* Variant of the catch block that returns the fallback decision as
\* analyzeSignals built it, without the source and the error.
KeepMarketData(fallback, err) == fallback

\* The catch block of runDecisions: the fallback decision with its marketData
\* overwritten by source = decisionSource and deepseekError = String(err).
FallbackDecision(fallback, err) ==
  [fallback EXCEPT !.mdSource = "fallback_rules", !.mdError = err]

\* The source written to "st-decisions": marketData.source || decisionSource.
RecordedSource(decision, decisionSource) ==
  IF decision.mdSource # "" THEN decision.mdSource ELSE decisionSource

(***************************************************************************)
(* Trade sizer (the head of executeSimulatedTrade): 0 stands for           *)
(* "return null".                                                          *)
(***************************************************************************)
\* Math.floor(currentShares * sellPct) with sellPct = Math.min(0.25,
\* confidence / 400) is taken of a product of doubles.  DoubleShortfall lists
\* the pairs <<currentShares, confidence>>, for up to 3000 shares and whole
\* confidences, at which the product is an integer in exact arithmetic and
\* just below it in doubles, so that the floor is one less.
DoubleShortfall ==
  {<<200, 58>>, <<360, 70>>, <<400, 29>>, <<400, 57>>, <<400, 58>>,
   <<600, 82>>, <<680, 70>>, <<720, 35>>, <<720, 70>>, <<800, 29>>,
   <<800, 57>>, <<800, 58>>, <<1200, 41>>, <<1200, 57>>, <<1200, 69>>,
   <<1200, 82>>, <<1320, 70>>, <<1360, 35>>, <<1360, 70>>, <<1400, 70>>,
   <<1440, 35>>, <<1440, 70>>, <<1600, 29>>, <<1600, 57>>, <<1600, 58>>,
   <<2400, 41>>, <<2400, 57>>, <<2400, 69>>, <<2400, 82>>, <<2600, 70>>,
   <<2640, 35>>, <<2640, 70>>, <<2680, 70>>, <<2720, 35>>, <<2720, 70>>,
   <<2760, 70>>, <<2800, 35>>, <<2800, 57>>, <<2800, 69>>, <<2800, 70>>,
   <<2840, 70>>, <<2880, 35>>, <<2880, 70>>, <<2920, 70>>, <<3000, 58>>}

SellFloor(currentShares, confidence) ==
  (currentShares * Min(100, confidence)) \div 400
    - (IF <<currentShares, confidence>> \in DoubleShortfall THEN 1 ELSE 0)

\* Variant of the sizer without the HOLD exit: HOLD is sized like a BUY.
SizeHoldAsBuy(decision, currentPrice, currentShares) ==
  IF decision.action \in {"HOLD", "BUY"}
    THEN IF decision.symbol = MSFT_SYMBOL
           THEN 290000 \div currentPrice
           ELSE Max(200, decision.confidence * 10)
  ELSE IF currentShares <= 0 THEN 0
  ELSE Min(currentShares,
           Max(1, SellFloor(currentShares, decision.confidence)))

\* Variant of the sizer that sells at least one share whatever the position.
SellAtLeastOne(decision, currentPrice, currentShares) ==
  IF decision.action = "HOLD" THEN 0
  ELSE IF decision.action = "BUY"
    THEN IF decision.symbol = MSFT_SYMBOL
           THEN 290000 \div currentPrice
           ELSE Max(200, decision.confidence * 10)
  ELSE Max(1, SellFloor(currentShares, decision.confidence))

\* Variant of the sizer without the minimum lot of a BUY.
BuyWithoutMinimumLot(decision, currentPrice, currentShares) ==
  IF decision.action = "HOLD" THEN 0
  ELSE IF decision.action = "BUY"
    THEN IF decision.symbol = MSFT_SYMBOL
           THEN 290000 \div currentPrice
           ELSE decision.confidence * 10
  ELSE IF currentShares <= 0 THEN 0
  ELSE Min(currentShares,
           Max(1, SellFloor(currentShares, decision.confidence)))

\* Variant of the sizer that sells up to half of the position.
SellUpToHalf(decision, currentPrice, currentShares) ==
  IF decision.action = "HOLD" THEN 0
  ELSE IF decision.action = "BUY"
    THEN IF decision.symbol = MSFT_SYMBOL
           THEN 290000 \div currentPrice
           ELSE Max(200, decision.confidence * 10)
  ELSE IF currentShares <= 0 THEN 0
  ELSE Min(currentShares,
           Max(1, (currentShares * Min(100, decision.confidence)) \div 200))

TradeShares(decision, currentPrice, currentShares) ==
  IF decision.action = "HOLD" THEN 0
  ELSE IF decision.action = "BUY"
    THEN IF decision.symbol = MSFT_SYMBOL
           THEN 290000 \div currentPrice
           ELSE Max(200, decision.confidence * 10)
  ELSE IF currentShares <= 0 THEN 0
  ELSE Min(currentShares,
           Max(1, SellFloor(currentShares, decision.confidence)))

\* Math.round(n / d) for n >= 0, d > 0.
RoundDiv(n, d) == (2 * n + d) \div (2 * d)

\* The weighted average cost executeSimulatedTrade writes on a BUY, rounded to
\* hundredths.
NewAvgCost(currentShares, currentCostPrice, tradeShares, currentPrice) ==
  LET oldCost == IF currentCostPrice > 0 THEN currentCostPrice ELSE currentPrice
      newTotalShares == currentShares + tradeShares
  IN IF newTotalShares > 0
       THEN RoundDiv(currentShares * oldCost + tradeShares * currentPrice,
                     newTotalShares)
       ELSE currentPrice


(***************************************************************************)
(* State.                                                                  *)
(***************************************************************************)
VARIABLES
  clock,           \* minutes since the behaviour started (Date.now(), NOW())
  calendar,        \* [tradingDay, isQuarterEnd]: what new Date() says of today
  symbolSettings,  \* "st-symbol-settings": symbol -> [enabled, autoTrade]
  globalAutoTrade, \* "st-app-settings" global_auto_trade
  holdings,        \* "st-holdings": symbol -> [present, shares, cost_price, current_price]
  decisionsTable,  \* "st-decisions", append-only
  tradesTable,     \* "st-trades", append-only
  tradesBefore,    \* symbol -> today's "st-trades" rows written before the behaviour
  logs,            \* the reason codes handed to logAction, [action, symbol, cycle]
  schedulerTimer,  \* scheduler.ts: the interval timer is set
  startupTimers,   \* scheduler.ts: pending 5-second startup timeouts
  isRunning,       \* scheduler.ts: the re-entrancy flag
  started,         \* handler invocations so far
  pc,              \* slot -> where the invocation stands
  entry,           \* slot -> [kind, task]: the entry point that started it
  cyc,             \* slot -> number of the invocation
  run,             \* slot -> runDecisions' locals that live for the whole call
  idx,             \* slot -> index of the for loop (runDecisions, updateAllPrices)
  loop,            \* slot -> runDecisions' locals of the current iteration
  decisions,       \* slot -> the decisions array runDecisions returns
  trades,          \* slot -> the trades array runDecisions returns
  calc             \* the pure calculators: [fn, args, result] of one call

\* No calculator call is modelled in the specifications of the system.
NoCalc == [fn |-> "", args |-> <<>>, result |-> <<>>]

storeVars == <<symbolSettings, globalAutoTrade, holdings, decisionsTable,
               tradesTable, tradesBefore, logs>>
schedVars == <<schedulerTimer, startupTimers, isRunning>>
slotVars == <<pc, entry, cyc, run, idx, loop, decisions, trades>>
vars == <<clock, calendar, calc, storeVars, schedVars, started, slotVars>>

NoRisk == [stopLossTriggered |-> FALSE, maxPositionReached |-> FALSE,
           cooldownActive |-> FALSE, dailyTradeCount |-> 0]
NoDecision == [symbol |-> "", action |-> "", confidence |-> 0,
               mdSource |-> "", mdError |-> ""]
EmptyLoop == [symbol |-> "", quote |-> NoValue, currentPrice |-> NoValue,
              costPrice |-> NoValue, shares |-> 0, riskCheck |-> NoRisk, llm |-> "",
              decisionSource |-> "", decision |-> NoDecision, tradeShares |-> 0]
NoHolding == [present |-> FALSE, shares |-> 0, cost_price |-> NoValue,
              current_price |-> NoValue]
EmptyRun == [trackedSettings |-> <<>>, autoTrade |-> [s \in Symbols |-> FALSE],
             globalAutoTrade |-> FALSE, tradingDay |-> FALSE,
             holdingsMap |-> [s \in Symbols |-> NoHolding], priceRows |-> <<>>]
NoEntry == [kind |-> "", task |-> ""]

\* Variant of the settings query without its WHERE enabled filter.
EverySymbol == AllSymbols

\* getSymbolSettings(true): the enabled rows, ORDER BY symbol.
EnabledSymbols == SelectSeq(AllSymbols, LAMBDA s : symbolSettings[s].enabled)

Symbol(i) == run[i].trackedSettings[idx[i]]

\* The pcs of the for loop of runDecisions: the holdings snapshot has been read
\* and the call has not returned.
LoopPcs == {"quote", "news", "context", "risk", "decide", "record", "trade",
            "position"}
RunDecisionsPcs == {"rd_settings", "rd_holdings", "rd_complete"} \cup LoopPcs
\* An invocation that has returned to its caller; its slot can be taken again.
FreePcs == {"idle", "done", "failed", "skipped"}

(***************************************************************************)
(* Initial states: the module-level state of scheduler.ts after load and a *)
(* store the program can have left behind.                                 *)
(***************************************************************************)
InitSlots ==
  /\ pc = [i \in Slots |-> "idle"]
  /\ entry = [i \in Slots |-> NoEntry]
  /\ cyc = [i \in Slots |-> 0]
  /\ run = [i \in Slots |-> EmptyRun]
  /\ idx = [i \in Slots |-> 0]
  /\ loop = [i \in Slots |-> EmptyLoop]
  /\ decisions = [i \in Slots |-> <<>>]
  /\ trades = [i \in Slots |-> <<>>]
  /\ started = 0
  /\ clock = 0
  /\ schedulerTimer = FALSE
  /\ startupTimers = 0
  /\ isRunning = FALSE
  /\ decisionsTable = <<>>
  /\ tradesTable = <<>>
  /\ logs = {}

Held(shares, cost, price) ==
  [present |-> TRUE, shares |-> shares, cost_price |-> cost, current_price |-> price]


(***************************************************************************)
(* Entry points.  An invocation takes the lowest free slot (the slots are  *)
(* interchangeable).                                                       *)
(***************************************************************************)
LowestFree(i) ==
  /\ pc[i] \in FreePcs
  /\ \A j \in Slots : j < i => pc[j] \notin FreePcs

Begin(i, kind, task, firstPc) ==
  /\ LowestFree(i)
  /\ started < MaxStarts
  /\ started' = started + 1
  /\ cyc' = [cyc EXCEPT ![i] = started + 1]
  /\ entry' = [entry EXCEPT ![i] = [kind |-> kind, task |-> task]]
  /\ pc' = [pc EXCEPT ![i] = firstPc]
  /\ run' = [run EXCEPT ![i] = EmptyRun]
  /\ idx' = [idx EXCEPT ![i] = 0]
  /\ loop' = [loop EXCEPT ![i] = EmptyLoop]
  /\ decisions' = [decisions EXCEPT ![i] = <<>>]
  /\ trades' = [trades EXCEPT ![i] = <<>>]

\* Where an exception thrown inside updateAllPrices or runDecisions lands: the
\* catch block of runTradingCycle, or the 500 response of a route.
ThrowPc(i) == IF entry[i].kind = "scheduler" THEN "sched_catch" ELSE "failed"

\* startScheduler: sets the startup timeout and the interval timer; a call
\* while the timer is set changes nothing.
startScheduler ==
  /\ ~schedulerTimer
  /\ startupTimers < MaxTimers
  /\ schedulerTimer' = TRUE
  /\ startupTimers' = startupTimers + 1
  /\ UNCHANGED <<clock, calendar, calc, storeVars, isRunning, started, slotVars>>

\* stopScheduler: clears the interval timer; the startup timeout is not
\* cleared. A call while no timer is set changes nothing.
stopScheduler ==
  /\ schedulerTimer
  /\ schedulerTimer' = FALSE
  /\ UNCHANGED <<clock, calendar, calc, storeVars, startupTimers, isRunning,
                 started, slotVars>>

\* Variant of the guard that never sees a running cycle.
GuardOff == FALSE

\* The guard of runTradingCycle.
PreviousCycleRunning == isRunning

\* runTradingCycle up to its first await: the re-entrancy guard.
runTradingCycle(i) ==
  IF PreviousCycleRunning
    THEN /\ Begin(i, "scheduler", "", "skipped")
         /\ UNCHANGED isRunning
    ELSE /\ Begin(i, "scheduler", "", "sched_settings")
         /\ isRunning' = TRUE

StartupTimeout(i) ==
  /\ startupTimers > 0
  /\ startupTimers' = startupTimers - 1
  /\ runTradingCycle(i)
  /\ UNCHANGED <<clock, calendar, calc, storeVars, schedulerTimer>>

IntervalTick(i) ==
  /\ schedulerTimer
  /\ runTradingCycle(i)
  /\ UNCHANGED <<clock, calendar, calc, storeVars, schedulerTimer, startupTimers>>

\* runTradingCycle: getSymbolSettings(true) and isAnyMarketOpen.
SchedSettings(i, E) ==
  /\ pc[i] = "sched_settings"
  /\ \E fail \in E.storeFails, open \in E.marketOpen :
       IF fail
         THEN /\ pc' = [pc EXCEPT ![i] = "sched_catch"]
              /\ UNCHANGED isRunning
       ELSE IF ~(Len(EnabledSymbols) > 0 /\ open)
         THEN /\ pc' = [pc EXCEPT ![i] = "done"]
              /\ isRunning' = FALSE
         ELSE /\ pc' = [pc EXCEPT ![i] = "prices_rows"]
              /\ UNCHANGED isRunning
  /\ UNCHANGED <<clock, calendar, calc, storeVars, schedulerTimer, startupTimers,
                 started, entry, cyc, run, idx, loop, decisions, trades>>

\* runTradingCycle after runDecisions returned: the success log, then finally.
SchedFinish(i) ==
  /\ pc[i] = "sched_log"
  /\ pc' = [pc EXCEPT ![i] = "done"]
  /\ isRunning' = FALSE
  /\ UNCHANGED <<clock, calendar, calc, storeVars, schedulerTimer, startupTimers,
                 started, entry, cyc, run, idx, loop, decisions, trades>>

\* Variant of the catch block that returns without the finally block.
CatchKeepsGuard(i) ==
  /\ pc[i] = "sched_catch"
  /\ pc' = [pc EXCEPT ![i] = "failed"]
  /\ UNCHANGED <<clock, calendar, calc, storeVars, schedulerTimer, startupTimers,
                 started, entry, cyc, run, idx, loop, decisions, trades, isRunning>>

\* runTradingCycle's catch block, then finally.
SchedCatch(i) ==
  /\ pc[i] = "sched_catch"
  /\ pc' = [pc EXCEPT ![i] = "failed"]
  /\ isRunning' = FALSE
  /\ UNCHANGED <<clock, calendar, calc, storeVars, schedulerTimer, startupTimers,
                 started, entry, cyc, run, idx, loop, decisions, trades>>

\* POST of the cron route; task health only reads and is left out.
CronPost(i, task) ==
  /\ Begin(i, "cron", task, IF task = "decisions" THEN "rd_settings" ELSE "prices_rows")
  /\ UNCHANGED <<clock, calendar, calc, storeVars, schedVars>>

\* POST of the decisions route.
ManualPost(i) ==
  /\ Begin(i, "manual", "", "rd_settings")
  /\ UNCHANGED <<clock, calendar, calc, storeVars, schedVars>>

(***************************************************************************)
(* updateAllPrices                                                         *)
(***************************************************************************)
\* Variant of the price UPDATE that also overwrites cost_price.
PriceRefreshResetsCost(row, quote) ==
  [row EXCEPT !.current_price = quote, !.cost_price = quote]

\* UPDATE "st-holdings" SET current_price = quote.price of updateAllPrices.
PriceRefreshed(row, quote) == [row EXCEPT !.current_price = quote]

\* SELECT symbol FROM "st-holdings"
UpdatePricesRows(i, E) ==
  /\ pc[i] = "prices_rows"
  /\ \E fail \in E.storeFails :
       IF fail
         THEN /\ pc' = [pc EXCEPT ![i] = ThrowPc(i)]
              /\ UNCHANGED <<run, idx>>
         ELSE LET rows == SelectSeq(AllSymbols, LAMBDA s : holdings[s].present)
              IN /\ run' = [run EXCEPT ![i].priceRows = rows]
                 /\ idx' = [idx EXCEPT ![i] = 1]
                 /\ pc' = [pc EXCEPT ![i] = "prices"]
  /\ UNCHANGED <<clock, calendar, calc, storeVars, schedVars, started, entry, cyc,
                 loop, decisions, trades>>

\* One round of the loop: fetchQuote, then UPDATE current_price; after the last
\* row the caller goes on with runDecisions (scheduler, cron task full) or ends.
UpdatePricesRow(i, E) ==
  /\ pc[i] = "prices"
  /\ IF idx[i] > Len(run[i].priceRows)
       THEN /\ pc' = [pc EXCEPT ![i] =
                 IF entry[i].task = "prices" THEN "done" ELSE "rd_settings"]
            /\ idx' = [idx EXCEPT ![i] = 0]
            /\ UNCHANGED holdings
       ELSE LET symbol == run[i].priceRows[idx[i]]
            IN \E quote \in E.quotes[symbol], fail \in E.storeFails :
                 IF quote = NoValue
                   THEN /\ idx' = [idx EXCEPT ![i] = idx[i] + 1]
                        /\ UNCHANGED <<pc, holdings>>
                 ELSE IF fail
                   THEN /\ pc' = [pc EXCEPT ![i] = ThrowPc(i)]
                        /\ UNCHANGED <<idx, holdings>>
                   ELSE /\ holdings' = [holdings EXCEPT ![symbol] =
                                          PriceRefreshed(holdings[symbol], quote)]
                        /\ idx' = [idx EXCEPT ![i] = idx[i] + 1]
                        /\ UNCHANGED pc
  /\ UNCHANGED <<clock, calendar, calc, symbolSettings, globalAutoTrade, decisionsTable,
                 tradesTable, tradesBefore, logs, schedVars, started, entry, cyc,
                 run, loop, decisions, trades>>


(***************************************************************************)
(* runDecisions                                                            *)
(***************************************************************************)
\* Frame of a runDecisions step that touches only its own slot.
RdFrame == UNCHANGED <<clock, calendar, calc, schedVars, started, entry, cyc>>

\* Where runDecisions returns to: the rest of runTradingCycle, or the response
\* of a route.
ReturnPc(i) == IF entry[i].kind = "scheduler" THEN "sched_log" ELSE "done"

\* The start log, getSymbolSettings(true), getGlobalAutoTrade(), and the early
\* return when no symbol is enabled.
RdSettings(i, E) ==
  /\ pc[i] = "rd_settings"
  /\ \E fail \in E.storeFails :
       IF fail
         THEN /\ pc' = [pc EXCEPT ![i] = ThrowPc(i)]
              /\ UNCHANGED run
         ELSE /\ run' = [run EXCEPT
                   ![i].trackedSettings = EnabledSymbols,
                   ![i].autoTrade = [s \in Symbols |-> symbolSettings[s].autoTrade],
                   ![i].globalAutoTrade = globalAutoTrade]
              /\ pc' = [pc EXCEPT ![i] =
                   IF Len(EnabledSymbols) = 0 THEN ReturnPc(i) ELSE "rd_holdings"]
  /\ RdFrame
  /\ UNCHANGED <<storeVars, idx, loop, decisions, trades>>

\* SELECT ... FROM "st-holdings" into holdingsMap, and isTradingDay(new Date()).
RdHoldings(i, E) ==
  /\ pc[i] = "rd_holdings"
  /\ \E fail \in E.storeFails :
       IF fail
         THEN /\ pc' = [pc EXCEPT ![i] = ThrowPc(i)]
              /\ UNCHANGED <<run, idx>>
         ELSE /\ run' = [run EXCEPT ![i].holdingsMap = holdings,
                                    ![i].tradingDay = calendar.tradingDay]
              /\ idx' = [idx EXCEPT ![i] = 1]
              /\ pc' = [pc EXCEPT ![i] = "quote"]
  /\ RdFrame
  /\ UNCHANGED <<storeVars, loop, decisions, trades>>

\* The head of a round (its locals are fresh), then 1. getQuote: null falls
\* back to the snapshot's current_price. getQuote catches every error of its
\* providers.
GetQuote(i, E) ==
  /\ pc[i] = "quote"
  /\ \E quote \in E.quotes[Symbol(i)] :
       LET row == run[i].holdingsMap[Symbol(i)]
       IN loop' = [loop EXCEPT ![i] = [EmptyLoop EXCEPT
            !.symbol = Symbol(i),
            !.quote = quote,
            !.currentPrice = IF quote # NoValue THEN quote ELSE row.current_price]]
  /\ pc' = [pc EXCEPT ![i] = "news"]
  /\ RdFrame
  /\ UNCHANGED <<storeVars, run, idx, decisions, trades>>

\* 2. searchMarketNews (never throws: a failed search yields a placeholder
\* text), then costPrice and shares from the snapshot row.
SearchNews(i) ==
  /\ pc[i] = "news"
  /\ LET row == run[i].holdingsMap[Symbol(i)]
     IN loop' = [loop EXCEPT
          ![i].costPrice = IF row.cost_price > 0 THEN row.cost_price ELSE NoValue,
          ![i].shares = row.shares]
  /\ pc' = [pc EXCEPT ![i] = "context"]
  /\ RdFrame
  /\ UNCHANGED <<storeVars, run, idx, decisions, trades>>

\* 3. buildDecisionContext, first half: getRecentPriceHistory and
\* computeTechnicalIndicators query "st-price-history" with no catch.
BuildContextHistory(i, E) ==
  /\ pc[i] = "context"
  /\ \E fail \in E.storeFails :
       pc' = [pc EXCEPT ![i] = IF fail THEN ThrowPc(i) ELSE "risk"]
  /\ RdFrame
  /\ UNCHANGED <<storeVars, run, idx, loop, decisions, trades>>

\* checkRiskConstraints: a failed cooldown query leaves cooldownActive false, a
\* failed count query leaves dailyTradeCount 0.
checkRiskConstraints(symbol, currentPrice, currency, costPrice, shares, cooldownFails, countFails) ==
  [stopLossTriggered |-> StopLossTriggered(currentPrice, costPrice, shares),
   maxPositionReached |-> MaxPositionReached(currentPrice, currency, shares),
   cooldownActive |-> IF cooldownFails THEN FALSE
                      ELSE CooldownActive(decisionsTable, symbol, clock),
   dailyTradeCount |-> IF countFails THEN 0
                       ELSE DailyTradeCount(tradesTable, tradesBefore, symbol)]

\* 3. buildDecisionContext, second half: checkRiskConstraints (and
\* getPreviousDecisions, which catches its errors).
CheckRisk(i, E) ==
  /\ pc[i] = "risk"
  /\ \E cooldownFails \in E.riskFails, countFails \in E.riskFails :
       loop' = [loop EXCEPT ![i].riskCheck =
         checkRiskConstraints(Symbol(i), loop[i].currentPrice,
                              CurrencyOf(Symbol(i)), loop[i].costPrice,
                              loop[i].shares, cooldownFails, countFails)]
  /\ pc' = [pc EXCEPT ![i] = "decide"]
  /\ RdFrame
  /\ UNCHANGED <<storeVars, run, idx, decisions, trades>>

\* The end of one round of the for loop. loop[i] keeps the locals of the round
\* that ended until the next round begins.
NextRound(i) ==
  /\ idx' = [idx EXCEPT ![i] = idx[i] + 1]
  /\ UNCHANGED loop
  /\ pc' = [pc EXCEPT ![i] =
       IF idx[i] + 1 > Len(run[i].trackedSettings) THEN "rd_complete" ELSE "quote"]

Log(action, i) == logs' = logs \cup {[action |-> action, symbol |-> Symbol(i),
                                      cycle |-> cyc[i]]}

\* Risk gate: cooldown active, so log COOLDOWN_SKIP and continue.
CooldownSkip(i) ==
  /\ pc[i] = "decide"
  /\ loop[i].riskCheck.cooldownActive
  /\ Log("COOLDOWN_SKIP", i)
  /\ NextRound(i)
  /\ RdFrame
  /\ UNCHANGED <<symbolSettings, globalAutoTrade, holdings, decisionsTable,
                 tradesTable, tradesBefore, run, decisions, trades>>

\* A variant of the try/catch that calls the model again after a throw
\* instead of deciding by the rules.
DecideWithRetry(i, E) ==
  /\ pc[i] = "decide"
  /\ ~loop[i].riskCheck.cooldownActive
  /\ \E llm \in E.llm[Symbol(i)] :
       IF llm.err = ""
         THEN /\ loop' = [loop EXCEPT
                   ![i].llm = "ok",
                   ![i].decisionSource = "deepseek",
                   ![i].decision = DeepSeekDecision(Symbol(i), llm.action, llm.confidence)]
              /\ pc' = [pc EXCEPT ![i] = "record"]
         ELSE /\ loop' = [loop EXCEPT ![i].llm = llm.err]
              /\ pc' = pc
  /\ RdFrame
  /\ UNCHANGED <<symbolSettings, globalAutoTrade, holdings, decisionsTable,
                 tradesTable, tradesBefore, run, idx, decisions, trades, logs>>

\* The try/catch around decideWithDeepSeek: the model's decision, or on any
\* throw the decision of analyzeSignals with source fallback_rules.
Decide(i, E) ==
  /\ pc[i] = "decide"
  /\ ~loop[i].riskCheck.cooldownActive
  /\ \E llm \in E.llm[Symbol(i)] :
       IF llm.err = ""
         THEN /\ loop' = [loop EXCEPT
                   ![i].llm = "ok",
                   ![i].decisionSource = "deepseek",
                   ![i].decision = DeepSeekDecision(Symbol(i), llm.action, llm.confidence)]
              /\ UNCHANGED logs
         ELSE \E ext \in E.ext, techSupport \in E.tech :
              /\ loop' = [loop EXCEPT
                   ![i].llm = llm.err,
                   ![i].decisionSource = "fallback_rules",
                   ![i].decision = FallbackDecision(
                      analyzeSignals(Symbol(i), loop[i].currentPrice,
                                     loop[i].costPrice, loop[i].shares, ext,
                                     techSupport, calendar.isQuarterEnd,
                                     loop[i].riskCheck),
                      llm.err)]
              /\ Log("DEEPSEEK_FALLBACK", i)
  /\ pc' = [pc EXCEPT ![i] = "record"]
  /\ RdFrame
  /\ UNCHANGED <<symbolSettings, globalAutoTrade, holdings, decisionsTable,
                 tradesTable, tradesBefore, run, idx, decisions, trades>>

\* The row INSERTed into "st-decisions".
DecisionRow(i) ==
  [symbol |-> loop[i].decision.symbol,
   action |-> loop[i].decision.action,
   confidence |-> loop[i].decision.confidence,
   source |-> RecordedSource(loop[i].decision, loop[i].decisionSource),
   deepseekError |-> loop[i].decision.mdError,
   createdAt |-> clock,
   cycle |-> cyc[i]]

\* Variant of the save step that goes on to the trade step without the
\* INSERT.
TradeBeforeRecord(i, E) ==
  /\ pc[i] = "record"
  /\ pc' = [pc EXCEPT ![i] = "trade"]
  /\ RdFrame
  /\ UNCHANGED <<symbolSettings, globalAutoTrade, holdings, tradesTable,
                 tradesBefore, logs, run, idx, loop, trades, decisionsTable,
                 decisions>>

\* Save decision: INSERT INTO "st-decisions" (no catch), then decisions.push.
RecordDecision(i, E) ==
  /\ pc[i] = "record"
  /\ \E fail \in E.storeFails :
       IF fail
         THEN /\ pc' = [pc EXCEPT ![i] = ThrowPc(i)]
              /\ UNCHANGED <<decisionsTable, decisions>>
         ELSE /\ decisionsTable' = Append(decisionsTable, DecisionRow(i))
              /\ decisions' = [decisions EXCEPT ![i] = Append(@, loop[i].decision)]
              /\ pc' = [pc EXCEPT ![i] = "trade"]
  /\ RdFrame
  /\ UNCHANGED <<symbolSettings, globalAutoTrade, holdings, tradesTable,
                 tradesBefore, logs, run, idx, loop, trades>>


\* Variant of the preconditions without the global auto-trade switch.
GateIgnoresGlobal(i) ==
  /\ run[i].tradingDay
  /\ run[i].autoTrade[loop[i].symbol]
  /\ loop[i].currentPrice > 0

\* The four preconditions of step 4.
TradeGateOpen(i) ==
  /\ run[i].tradingDay
  /\ run[i].globalAutoTrade
  /\ run[i].autoTrade[loop[i].symbol]
  /\ loop[i].currentPrice > 0

\* Variant of the daily limit check that never reports the limit.
LimitNeverReached(i) == FALSE

dailyLimitReached(i) == loop[i].riskCheck.dailyTradeCount >= DAILY_TRADE_LIMIT

\* The row INSERTed into "st-trades".
TradeRow(i, tradeShares) ==
  [symbol |-> loop[i].decision.symbol, action |-> loop[i].decision.action,
   shares |-> tradeShares, price |-> loop[i].currentPrice, cycle |-> cyc[i]]

\* 4. Execute trade with risk enforcement, up to the INSERT INTO "st-trades" of
\* executeSimulatedTrade (no catch).
ExecuteTrade(i, E) ==
  /\ pc[i] = "trade"
  /\ IF TradeGateOpen(i)
       THEN IF dailyLimitReached(i)
              THEN /\ Log("DAILY_LIMIT_SKIP", i)
                   /\ NextRound(i)
                   /\ UNCHANGED tradesTable
              ELSE LET tradeShares == TradeShares(loop[i].decision,
                                        loop[i].currentPrice, loop[i].shares)
                   IN IF tradeShares <= 0
                        THEN /\ NextRound(i)
                             /\ UNCHANGED <<tradesTable, logs>>
                        ELSE \E fail \in E.storeFails :
                             IF fail
                               THEN /\ pc' = [pc EXCEPT ![i] = ThrowPc(i)]
                                    /\ UNCHANGED <<tradesTable, logs, idx, loop>>
                               ELSE /\ tradesTable' =
                                         Append(tradesTable, TradeRow(i, tradeShares))
                                    /\ loop' = [loop EXCEPT ![i].tradeShares = tradeShares]
                                    /\ pc' = [pc EXCEPT ![i] = "position"]
                                    /\ UNCHANGED <<logs, idx>>
       ELSE IF run[i].tradingDay
                 /\ (~run[i].globalAutoTrade \/ ~run[i].autoTrade[Symbol(i)])
         THEN /\ Log("AUTO_TRADE_SKIPPED", i)
              /\ NextRound(i)
              /\ UNCHANGED tradesTable
         ELSE /\ NextRound(i)
              /\ UNCHANGED <<tradesTable, logs>>
  /\ RdFrame
  /\ UNCHANGED <<symbolSettings, globalAutoTrade, holdings, decisionsTable,
                 tradesBefore, run, decisions, trades>>

\* INSERT ... ON CONFLICT (symbol) DO NOTHING of a BUY.
Upserted(row, currentPrice) ==
  IF row.present THEN row ELSE Held(0, currentPrice, currentPrice)

\* The UPDATE "st-holdings" of a BUY: shares from the stored row, cost_price
\* from the snapshot the cycle read at its start.
BuyUpdate(row, tradeShares, currentPrice, currentShares, currentCostPrice) ==
  [row EXCEPT
     !.shares = @ + tradeShares,
     !.cost_price = NewAvgCost(currentShares, currentCostPrice, tradeShares, currentPrice),
     !.current_price = currentPrice]

\* Variant of the SELL update without the floor at zero.
SellWithoutFloor(row, tradeShares, currentPrice) ==
  IF row.present
    THEN [row EXCEPT !.shares = @ - tradeShares, !.current_price = currentPrice]
    ELSE row

\* Variant of the SELL update that clears cost_price when no share is left.
SellClearsCostAtZero(row, tradeShares, currentPrice) ==
  IF row.present
    THEN [row EXCEPT !.shares = Max(0, @ - tradeShares),
                     !.cost_price = IF row.shares - tradeShares <= 0 THEN NoValue ELSE @,
                     !.current_price = currentPrice]
    ELSE row

\* The UPDATE "st-holdings" of a SELL: GREATEST(0, shares - tradeShares).
SellUpdate(row, tradeShares, currentPrice) ==
  IF row.present
    THEN [row EXCEPT !.shares = Max(0, @ - tradeShares),
                     !.current_price = currentPrice]
    ELSE row

\* The rest of executeSimulatedTrade: update holdings (no catch), log, return
\* the trade, which runDecisions pushes.
UpdatePosition(i, E) ==
  /\ pc[i] = "position"
  /\ LET symbol == Symbol(i)
         d == loop[i].decision
         row == holdings[symbol]
     IN \E upsertFails \in E.storeFails, updateFails \in E.storeFails :
          IF d.action = "BUY" /\ upsertFails
            THEN /\ pc' = [pc EXCEPT ![i] = ThrowPc(i)]
                 /\ UNCHANGED <<holdings, trades, idx, loop>>
          ELSE IF updateFails
            THEN /\ pc' = [pc EXCEPT ![i] = ThrowPc(i)]
                 /\ holdings' = [holdings EXCEPT ![symbol] =
                      IF d.action = "BUY" THEN Upserted(row, loop[i].currentPrice)
                                          ELSE row]
                 /\ UNCHANGED <<trades, idx, loop>>
            ELSE /\ holdings' = [holdings EXCEPT ![symbol] =
                      IF d.action = "BUY"
                        THEN BuyUpdate(Upserted(row, loop[i].currentPrice),
                                       loop[i].tradeShares, loop[i].currentPrice,
                                       loop[i].shares, loop[i].costPrice)
                        ELSE SellUpdate(row, loop[i].tradeShares, loop[i].currentPrice)]
                 /\ trades' = [trades EXCEPT ![i] =
                      Append(@, [symbol |-> symbol, action |-> d.action,
                                 shares |-> loop[i].tradeShares])]
                 /\ NextRound(i)
  /\ RdFrame
  /\ UNCHANGED <<symbolSettings, globalAutoTrade, decisionsTable, tradesTable,
                 tradesBefore, logs, run, decisions>>

\* The closing log of runDecisions and its return.
RdComplete(i) ==
  /\ pc[i] = "rd_complete"
  /\ pc' = [pc EXCEPT ![i] = ReturnPc(i)]
  /\ RdFrame
  /\ UNCHANGED <<storeVars, run, idx, loop, decisions, trades>>

\* setGlobalAutoTrade, called by the settings route while a cycle runs.
setGlobalAutoTrade(enabled) ==
  /\ globalAutoTrade # enabled
  /\ globalAutoTrade' = enabled
  /\ UNCHANGED <<clock, calendar, calc, symbolSettings, holdings, decisionsTable,
                 tradesTable, tradesBefore, logs, schedVars, started, slotVars>>

\* Time passes.
Advance ==
  /\ clock < MaxAdvances * AdvanceMin
  /\ clock' = clock + AdvanceMin
  /\ UNCHANGED <<calendar, calc, storeVars, schedVars, started, slotVars>>


(***************************************************************************)
(* What the collaborators may answer.                                      *)
(***************************************************************************)
LlmOk(action, confidence) == [err |-> "", action |-> action, confidence |-> confidence]
LlmThrows(err) == [err |-> err, action |-> "", confidence |-> 0]

\* The whole system: few answers per collaborator.
SystemEnv ==
  [quotes |-> [s \in Symbols |-> IF s = XIAOMI_SYMBOL THEN {NoValue, 4000} ELSE {40000}],
   storeFails |-> BOOLEAN,
   riskFails |-> {FALSE},
   marketOpen |-> BOOLEAN,
   llm |-> [s \in Symbols |-> {LlmOk("BUY", 90), LlmThrows("timeout")}],
   ext |-> {-200},
   tech |-> {FALSE}]

\* One call of runDecisions: every kind of answer for the first instrument.
CycleEnv ==
  [quotes |-> [s \in Symbols |-> IF s = XIAOMI_SYMBOL THEN {NoValue, 4000}
                                                     ELSE {NoValue, 40000}],
   storeFails |-> BOOLEAN,
   riskFails |-> BOOLEAN,
   marketOpen |-> BOOLEAN,
   llm |-> [s \in Symbols |->
              IF s = XIAOMI_SYMBOL
                THEN {LlmOk(a, 90) : a \in {"BUY", "SELL", "HOLD"}}
                       \cup {LlmThrows(e) : e \in LlmFailures}
                ELSE {LlmOk("BUY", 90), LlmOk("HOLD", 60), LlmThrows("timeout")}],
   ext |-> {-300, 300},
   tech |-> {FALSE}]

(***************************************************************************)
(* The whole system: scheduler, cron route and decisions route.            *)
(***************************************************************************)
InitStore ==
  /\ calendar = [tradingDay |-> TRUE, isQuarterEnd |-> FALSE]
  /\ symbolSettings = [s \in Symbols |->
       [enabled |-> s = XIAOMI_SYMBOL, autoTrade |-> TRUE]]
  /\ globalAutoTrade = TRUE
  /\ holdings = [s \in Symbols |->
       IF s = XIAOMI_SYMBOL THEN Held(1000, 4800, 4800) ELSE NoHolding]
  /\ tradesBefore = [s \in Symbols |-> 0]

Init == InitSlots /\ InitStore /\ calc = NoCalc

Next ==
  \/ startScheduler
  \/ Advance
  \/ \E i \in Slots :
       \/ StartupTimeout(i)
       \/ IntervalTick(i)
       \/ SchedSettings(i, SystemEnv)
       \/ SchedFinish(i)
       \/ SchedCatch(i)
       \/ \E task \in {"prices", "decisions", "full"} : CronPost(i, task)
       \/ ManualPost(i)
       \/ UpdatePricesRows(i, SystemEnv)
       \/ UpdatePricesRow(i, SystemEnv)
       \/ RdSettings(i, SystemEnv)
       \/ RdHoldings(i, SystemEnv)
       \/ GetQuote(i, SystemEnv)
       \/ SearchNews(i)
       \/ BuildContextHistory(i, SystemEnv)
       \/ CheckRisk(i, SystemEnv)
       \/ CooldownSkip(i)
       \/ Decide(i, SystemEnv)
       \/ RecordDecision(i, SystemEnv)
       \/ ExecuteTrade(i, SystemEnv)
       \/ UpdatePosition(i, SystemEnv)
       \/ RdComplete(i)

Spec == Init /\ [][Next]_vars

(***************************************************************************)
(* The scheduler alone: the startup timeout and the interval ticks.        *)
(***************************************************************************)
NextSched ==
  \/ startScheduler
  \/ Advance
  \/ \E i \in Slots :
       \/ StartupTimeout(i)
       \/ IntervalTick(i)
       \/ SchedSettings(i, SystemEnv)
       \/ SchedFinish(i)
       \/ SchedCatch(i)
       \/ UpdatePricesRows(i, SystemEnv)
       \/ UpdatePricesRow(i, SystemEnv)
       \/ RdSettings(i, SystemEnv)
       \/ RdHoldings(i, SystemEnv)
       \/ GetQuote(i, SystemEnv)
       \/ SearchNews(i)
       \/ BuildContextHistory(i, SystemEnv)
       \/ CheckRisk(i, SystemEnv)
       \/ CooldownSkip(i)
       \/ Decide(i, SystemEnv)
       \/ RecordDecision(i, SystemEnv)
       \/ ExecuteTrade(i, SystemEnv)
       \/ UpdatePosition(i, SystemEnv)
       \/ RdComplete(i)

SpecSched == Init /\ [][NextSched]_vars

\* The scheduler with a caller of stopScheduler.
NextTimer == NextSched \/ stopScheduler

SpecTimer == Init /\ [][NextTimer]_vars

(***************************************************************************)
(* One call of runDecisions by the decisions route, no other cycle in      *)
(* flight, from every kind of store content: the call has just begun.  The *)
(* settings route may flip the global auto-trade switch meanwhile.         *)
(***************************************************************************)
\* A decision an earlier cycle recorded for the symbol, minutes ago.
EarlierDecision(symbol, at) ==
  [symbol |-> symbol, action |-> "HOLD", confidence |-> 60, source |-> "deepseek",
   deepseekError |-> "", createdAt |-> at, cycle |-> 0]

InitCycle ==
  /\ clock = 2 * DECISION_COOLDOWN_MIN
  /\ calc = NoCalc
  /\ started = 1
  /\ pc = [i \in Slots |-> IF i = 1 THEN "rd_settings" ELSE "idle"]
  /\ entry = [i \in Slots |-> IF i = 1 THEN [kind |-> "manual", task |-> ""] ELSE NoEntry]
  /\ cyc = [i \in Slots |-> IF i = 1 THEN 1 ELSE 0]
  /\ run = [i \in Slots |-> EmptyRun]
  /\ idx = [i \in Slots |-> 0]
  /\ loop = [i \in Slots |-> EmptyLoop]
  /\ decisions = [i \in Slots |-> <<>>]
  /\ trades = [i \in Slots |-> <<>>]
  /\ schedulerTimer = FALSE
  /\ startupTimers = 0
  /\ isRunning = FALSE
  /\ tradesTable = <<>>
  /\ logs = {}
  /\ decisionsTable \in
       {<<>>, <<EarlierDecision(XIAOMI_SYMBOL, 0)>>,
        <<EarlierDecision(XIAOMI_SYMBOL, 2 * DECISION_COOLDOWN_MIN - 1)>>,
        <<EarlierDecision(MSFT_SYMBOL, DECISION_COOLDOWN_MIN + 1)>>}
  /\ calendar \in {[tradingDay |-> TRUE, isQuarterEnd |-> FALSE],
                   [tradingDay |-> TRUE, isQuarterEnd |-> TRUE],
                   [tradingDay |-> FALSE, isQuarterEnd |-> FALSE]}
  /\ symbolSettings \in
       {[s \in Symbols |-> [enabled |-> s \in en, autoTrade |-> s \in au]] :
          en \in {{}, {XIAOMI_SYMBOL}, Symbols}, au \in {{MSFT_SYMBOL}, Symbols}}
  /\ globalAutoTrade \in BOOLEAN
  /\ \E x \in {NoHolding, Held(1000, 4800, 4800), Held(10000, 4800, 4800)},
        m \in {NoHolding, Held(200, 35000, 40000)} :
       holdings = [s \in Symbols |-> IF s = XIAOMI_SYMBOL THEN x ELSE m]
  /\ \E n \in {0, DAILY_TRADE_LIMIT} :
       tradesBefore = [s \in Symbols |-> IF s = XIAOMI_SYMBOL THEN n ELSE 0]

NextCycle ==
  \/ \E enabled \in BOOLEAN : setGlobalAutoTrade(enabled)
  \/ \E i \in Slots :
       \/ RdSettings(i, CycleEnv)
       \/ RdHoldings(i, CycleEnv)
       \/ GetQuote(i, CycleEnv)
       \/ SearchNews(i)
       \/ BuildContextHistory(i, CycleEnv)
       \/ CheckRisk(i, CycleEnv)
       \/ CooldownSkip(i)
       \/ Decide(i, CycleEnv)
       \/ RecordDecision(i, CycleEnv)
       \/ ExecuteTrade(i, CycleEnv)
       \/ UpdatePosition(i, CycleEnv)
       \/ RdComplete(i)

SpecCycle == InitCycle /\ [][NextCycle]_vars

(***************************************************************************)
(* Two calls of runDecisions in flight at the same time (the cron route    *)
(* with task decisions and the decisions route), both just begun, on one   *)
(* enabled symbol.                                                         *)
(***************************************************************************)
PairEnv ==
  [quotes |-> [s \in Symbols |-> {4000, 5200}],
   storeFails |-> BOOLEAN,
   riskFails |-> {FALSE},
   marketOpen |-> {TRUE},
   llm |-> [s \in Symbols |-> {LlmOk("BUY", 90), LlmOk("SELL", 90),
                               LlmThrows("timeout")}],
   ext |-> {-200},
   tech |-> {FALSE}]

InitPair ==
  /\ clock = 0
  /\ calc = NoCalc
  /\ started = 2
  /\ pc = [i \in Slots |-> IF i <= 2 THEN "rd_settings" ELSE "idle"]
  /\ entry = [i \in Slots |->
       IF i = 1 THEN [kind |-> "cron", task |-> "decisions"]
       ELSE IF i = 2 THEN [kind |-> "manual", task |-> ""] ELSE NoEntry]
  /\ cyc = [i \in Slots |-> IF i <= 2 THEN i ELSE 0]
  /\ run = [i \in Slots |-> EmptyRun]
  /\ idx = [i \in Slots |-> 0]
  /\ loop = [i \in Slots |-> EmptyLoop]
  /\ decisions = [i \in Slots |-> <<>>]
  /\ trades = [i \in Slots |-> <<>>]
  /\ schedulerTimer = FALSE
  /\ startupTimers = 0
  /\ isRunning = FALSE
  /\ decisionsTable = <<>>
  /\ tradesTable = <<>>
  /\ logs = {}
  /\ calendar = [tradingDay |-> TRUE, isQuarterEnd |-> FALSE]
  /\ symbolSettings = [s \in Symbols |->
       [enabled |-> s = XIAOMI_SYMBOL, autoTrade |-> TRUE]]
  /\ globalAutoTrade = TRUE
  /\ \E x \in {NoHolding, Held(1, 4800, 4800), Held(1000, 4800, 4800),
               Held(1000, NoValue, 4800)} :
       holdings = [s \in Symbols |-> IF s = XIAOMI_SYMBOL THEN x ELSE NoHolding]
  /\ tradesBefore = [s \in Symbols |-> 0]

NextPair ==
  \E i \in Slots :
    \/ RdSettings(i, PairEnv)
    \/ RdHoldings(i, PairEnv)
    \/ GetQuote(i, PairEnv)
    \/ SearchNews(i)
    \/ BuildContextHistory(i, PairEnv)
    \/ CheckRisk(i, PairEnv)
    \/ CooldownSkip(i)
    \/ Decide(i, PairEnv)
    \/ RecordDecision(i, PairEnv)
    \/ ExecuteTrade(i, PairEnv)
    \/ UpdatePosition(i, PairEnv)
    \/ RdComplete(i)

SpecPair == InitPair /\ [][NextPair]_vars

(***************************************************************************)
(* Properties.                                                             *)
(***************************************************************************)
\* What a cycle wrote and returned for a symbol.
DecisionRowsOf(cycle, symbol) ==
  {k \in 1..Len(decisionsTable) :
     decisionsTable[k].cycle = cycle /\ decisionsTable[k].symbol = symbol}
TradeRowsOf(cycle, symbol) ==
  {k \in 1..Len(tradesTable) :
     tradesTable[k].cycle = cycle /\ tradesTable[k].symbol = symbol}
ReturnedFor(i, symbol) ==
  {k \in 1..Len(decisions[i]) : decisions[i][k].symbol = symbol}
Logged(action, symbol, cycle) ==
  [action |-> action, symbol |-> symbol, cycle |-> cycle] \in logs

\* The round whose locals loop[i] holds ran to its end: no step of it threw.
RoundOver(i) ==
  /\ loop[i].symbol # ""
  /\ pc[i] \in {"quote", "rd_complete", "sched_log", "done"}

\* That round made a decision and went through the trade step.
PastTradeStep(i) == RoundOver(i) /\ loop[i].decision.action # ""

\* The position of the round's symbol is as the cycle's snapshot read it.
PositionAsSnapshot(i) ==
  LET row == holdings[loop[i].symbol]
      snap == run[i].holdingsMap[loop[i].symbol]
  IN row.shares = snap.shares /\ row.cost_price = snap.cost_price

\* C1: across the scheduler, the cron route and the decisions route, no two
\* invocations of runDecisions are at the same time between reading the
\* holdings snapshot and writing their trade/position update.
C1_OneCycleMutates ==
  \A i, j \in Slots : (pc[i] \in LoopPcs /\ pc[j] \in LoopPcs) => i = j

\* The body of runTradingCycle behind the guard.
InSchedulerBody(i) ==
  /\ entry[i].kind = "scheduler"
  /\ pc[i] \in {"sched_settings", "prices_rows", "prices", "sched_log", "sched_catch"}
               \cup RunDecisionsPcs

\* C2: at most one body of runTradingCycle executes at any time; an invocation
\* of runTradingCycle (startup timeout or interval tick) made while a previous
\* one has not finished returns at once, writes nothing to the store, leaves
\* the flag alone, and takes no further step.
C2_ReentrancyGuard ==
  /\ [](\A i, j \in Slots : (InSchedulerBody(i) /\ InSchedulerBody(j)) => i = j)
  /\ [][\A i \in Slots :
          (/\ cyc'[i] # cyc[i]
           /\ entry'[i].kind = "scheduler"
           /\ \E j \in Slots : InSchedulerBody(j))
          => (pc'[i] = "skipped" /\ storeVars' = storeVars /\ isRunning' = isRunning)]_vars
  /\ [][\A i \in Slots :
          (pc[i] = "skipped" /\ pc'[i] # "skipped") => cyc'[i] # cyc[i]]_vars

\* C2 witness: a tick was skipped while the earlier cycle is inside the loop of
\* runDecisions.
C2_TickSkipped ==
  \E i, j \in Slots :
    /\ pc[i] = "skipped" /\ entry[i].kind = "scheduler"
    /\ InSchedulerBody(j) /\ pc[j] \in LoopPcs
    /\ cyc[i] > cyc[j]

\* C3: when a step for instrument number idx of a cycle fails, every enabled
\* instrument after it in the same cycle still gets its decision.
C3_FailureIsolated ==
  \A i \in Slots :
    (pc[i] = "failed" /\ idx[i] \in 1..Len(run[i].trackedSettings))
      => \A k \in (idx[i] + 1)..Len(run[i].trackedSettings) :
           DecisionRowsOf(cyc[i], run[i].trackedSettings[k]) # {}

\* C4: every way the model call fails is handled the same way: the failure
\* does not leave runDecisions (the step after the call is the decision
\* INSERT), the decision of the same instrument in the same cycle is the one
\* analyzeSignals computes, and it is recorded with source fallback_rules and
\* the error; a decision of a successful call is recorded with source deepseek.
C4_ModelFailureFallsBack ==
  /\ [][\A i \in Slots :
          (pc[i] = "decide" /\ pc'[i] # "decide" /\ loop'[i].llm # "")
            => pc'[i] = "record"]_vars
  /\ [](\A i \in Slots : loop[i].llm # "" =>
          LET d == loop[i].decision
              failed == loop[i].llm \in LlmFailures
          IN /\ d.symbol = loop[i].symbol
             /\ IF failed
                  THEN /\ \E ext \in CycleEnv.ext, techSupport \in CycleEnv.tech :
                            d = [analyzeSignals(loop[i].symbol, loop[i].currentPrice,
                                                loop[i].costPrice, loop[i].shares, ext,
                                                techSupport, calendar.isQuarterEnd,
                                                loop[i].riskCheck)
                                 EXCEPT !.mdSource = "fallback_rules",
                                        !.mdError = loop[i].llm]
                       /\ Logged("DEEPSEEK_FALLBACK", loop[i].symbol, cyc[i])
                  ELSE d.mdSource = "deepseek" /\ d.mdError = ""
             /\ (pc[i] \in {"trade", "position"} \/ RoundOver(i)) =>
                  \E k \in DecisionRowsOf(cyc[i], loop[i].symbol) :
                    /\ decisionsTable[k].action = d.action
                    /\ decisionsTable[k].confidence = d.confidence
                    /\ decisionsTable[k].source =
                         (IF failed THEN "fallback_rules" ELSE "deepseek")
                    /\ decisionsTable[k].deepseekError =
                         (IF failed THEN loop[i].llm ELSE ""))

\* C4 witness: the model answered with text that is no JSON, and the call of
\* runDecisions returned with the fallback decision recorded.
C4_NonJsonRecorded ==
  \E i \in Slots :
    /\ pc[i] = "done" /\ RoundOver(i)
    /\ loop[i].llm = "unparsable_json"
    /\ \E k \in DecisionRowsOf(cyc[i], loop[i].symbol) :
         /\ decisionsTable[k].source = "fallback_rules"
         /\ decisionsTable[k].deepseekError = "unparsable_json"

\* C5: whenever the stop-loss flag of the context is set, the decision made for
\* the instrument is SELL with confidence 90, whatever path made it.
C5_StopLossForcesSell ==
  \A i \in Slots :
    (loop[i].riskCheck.stopLossTriggered /\ loop[i].decision.action # "")
      => (loop[i].decision.action = "SELL" /\ loop[i].decision.confidence = 90)

\* C6: in a cycle where the max-position flag is set for a symbol, no BUY
\* trade is recorded for it and its share count is not increased.
C6_MaxPositionNoBuy ==
  \A i \in Slots : loop[i].riskCheck.maxPositionReached =>
    /\ \A k \in TradeRowsOf(cyc[i], loop[i].symbol) : tradesTable[k].action # "BUY"
    /\ holdings[loop[i].symbol].shares <= run[i].holdingsMap[loop[i].symbol].shares

\* C7 as stated: with dailyTradeCount at the limit when the context is built,
\* the round executes no trade, logs DAILY_LIMIT_SKIP, and the decision is
\* recorded and returned.
C7_DailyLimitAsStated ==
  \A i \in Slots :
    (RoundOver(i) /\ loop[i].riskCheck.dailyTradeCount >= DAILY_TRADE_LIMIT) =>
      /\ TradeRowsOf(cyc[i], loop[i].symbol) = {}
      /\ Logged("DAILY_LIMIT_SKIP", loop[i].symbol, cyc[i])
      /\ DecisionRowsOf(cyc[i], loop[i].symbol) # {}
      /\ ReturnedFor(i, loop[i].symbol) # {}

\* C7 amended: with dailyTradeCount at the limit when the context is built,
\* the cycle executes no trade for the symbol; a round that runs to its end
\* records and returns exactly one decision when the cooldown is not active
\* and none when it is; DAILY_LIMIT_SKIP is logged exactly by the rounds
\* without cooldown that reach the trade step with its four preconditions
\* true (trading day, global auto-trade, symbol auto-trade, positive price).
C7_DailyLimit ==
  \A i \in Slots : loop[i].riskCheck.dailyTradeCount >= DAILY_TRADE_LIMIT =>
    LET s == loop[i].symbol
        cooldown == loop[i].riskCheck.cooldownActive
    IN /\ TradeRowsOf(cyc[i], s) = {}
       /\ pc[i] # "position"
       /\ PositionAsSnapshot(i)
       /\ Logged("DAILY_LIMIT_SKIP", s, cyc[i]) => (~cooldown /\ TradeGateOpen(i))
       /\ RoundOver(i) =>
            /\ Cardinality(DecisionRowsOf(cyc[i], s)) = (IF cooldown THEN 0 ELSE 1)
            /\ Cardinality(ReturnedFor(i, s)) = (IF cooldown THEN 0 ELSE 1)
            /\ (~cooldown /\ TradeGateOpen(i)) => Logged("DAILY_LIMIT_SKIP", s, cyc[i])

\* C7 witness: a BUY decision at the daily limit with every precondition of
\* the trade step true: recorded, returned, skipped with the reason logged.
C7_LimitSkipped ==
  \E i \in Slots :
    /\ PastTradeStep(i)
    /\ loop[i].riskCheck.dailyTradeCount >= DAILY_TRADE_LIMIT
    /\ loop[i].decision.action = "BUY"
    /\ TradeGateOpen(i)
    /\ Logged("DAILY_LIMIT_SKIP", loop[i].symbol, cyc[i])
    /\ DecisionRowsOf(cyc[i], loop[i].symbol) # {}

\* C8 as stated: when the loop of runDecisions has run to its end, exactly one
\* decision is recorded and returned for each enabled symbol, and none for a
\* symbol that is not enabled.
C8_OncePerEnabledSymbolAsStated ==
  \A i \in Slots : pc[i] = "rd_complete" =>
    \A s \in Symbols :
      LET n == IF symbolSettings[s].enabled THEN 1 ELSE 0
      IN /\ Cardinality(DecisionRowsOf(cyc[i], s)) = n
         /\ Cardinality(ReturnedFor(i, s)) = n

\* C8 amended: when the loop of runDecisions has run to its end, exactly one
\* decision is recorded and returned for each enabled symbol whose risk
\* evaluation did not report an active cooldown (symbols at the daily limit
\* included), and none for an enabled symbol in cooldown, whose round logs
\* COOLDOWN_SKIP instead, and none for a symbol that is not enabled.
C8_OncePerEnabledSymbol ==
  /\ \A i \in Slots : pc[i] = "rd_complete" =>
       \A s \in Symbols :
         LET n == IF symbolSettings[s].enabled /\ ~Logged("COOLDOWN_SKIP", s, cyc[i])
                    THEN 1 ELSE 0
         IN /\ Cardinality(DecisionRowsOf(cyc[i], s)) = n
            /\ Cardinality(ReturnedFor(i, s)) = n
  /\ \A i \in Slots : RoundOver(i) =>
       (Logged("COOLDOWN_SKIP", loop[i].symbol, cyc[i])
          <=> loop[i].riskCheck.cooldownActive)

\* C8 witness: both symbols enabled, the first in cooldown and skipped, the
\* second decided.
C8_SkippedAndDecided ==
  \E i \in Slots :
    /\ pc[i] = "rd_complete"
    /\ Len(run[i].trackedSettings) = 2
    /\ Logged("COOLDOWN_SKIP", XIAOMI_SYMBOL, cyc[i])
    /\ DecisionRowsOf(cyc[i], XIAOMI_SYMBOL) = {}
    /\ Cardinality(DecisionRowsOf(cyc[i], MSFT_SYMBOL)) = 1

\* C9: a round whose decision is HOLD never reaches the trade INSERT: no trade
\* row is written for the symbol and the position keeps its shares and
\* cost_price.
C9_HoldNoTrade ==
  \A i \in Slots : loop[i].decision.action = "HOLD" =>
    /\ pc[i] # "position"
    /\ TradeRowsOf(cyc[i], loop[i].symbol) = {}
    /\ trades[i] = SelectSeq(trades[i], LAMBDA t : t.symbol # loop[i].symbol)
    /\ PositionAsSnapshot(i)

\* C9 witness: a HOLD decision went through the trade step with the four
\* preconditions true and the daily limit not reached, against a held position.
C9_HoldExecuted ==
  \E i \in Slots :
    /\ PastTradeStep(i)
    /\ loop[i].decision.action = "HOLD"
    /\ TradeGateOpen(i)
    /\ ~dailyLimitReached(i)
    /\ loop[i].shares > 0

\* C10: a round whose decision is SELL and whose current_shares is not
\* positive never reaches the trade INSERT: no trade row is written for the
\* symbol and no position changes.
C10_SellEmptyNoTrade ==
  \A i \in Slots :
    (loop[i].decision.action = "SELL" /\ loop[i].shares <= 0) =>
      /\ pc[i] # "position"
      /\ TradeRowsOf(cyc[i], loop[i].symbol) = {}
      /\ trades[i] = SelectSeq(trades[i], LAMBDA t : t.symbol # loop[i].symbol)
      /\ PositionAsSnapshot(i)

\* C10 witness: the fallback path decided SELL with no shares held, and the
\* round went through the trade step with its preconditions true.
C10_FallbackSellExecuted ==
  \E i \in Slots :
    /\ PastTradeStep(i)
    /\ loop[i].llm \in LlmFailures
    /\ loop[i].decision.action = "SELL"
    /\ loop[i].shares <= 0
    /\ TradeGateOpen(i)
    /\ ~dailyLimitReached(i)

\* The holdings UPDATE of executeSimulatedTrade has just succeeded in slot i.
PositionWritten(i) ==
  /\ pc[i] = "position"
  /\ pc'[i] \notin {"position", "failed", "sched_catch"}

\* C11: after any sequence of BUY and SELL executions, also SELLs sized from
\* a share snapshot that is no longer the stored count, no position has a
\* share count below 0.
C11_SharesNeverNegative ==
  \A s \in Symbols : holdings[s].shares >= 0

\* C11 witness: two calls read the same one-share position, both sold one
\* share, and the second UPDATE was floored at 0.
C11_StaleSellFloored ==
  \E i, j \in Slots :
    /\ i # j
    /\ RoundOver(i) /\ RoundOver(j)
    /\ loop[i].symbol = loop[j].symbol
    /\ loop[i].decision.action = "SELL" /\ loop[j].decision.action = "SELL"
    /\ loop[i].tradeShares >= 1 /\ loop[j].tradeShares >= 1
    /\ loop[i].tradeShares + loop[j].tradeShares
         > run[i].holdingsMap[loop[i].symbol].shares
    /\ holdings[loop[i].symbol].shares = 0

\* C12: a BUY of q shares at price p into the stored position of s shares at
\* cost c (s = 0 for no row; a null or zero cost counts as the price p, the
\* reading most favourable to the code) leaves shares s + q and cost_price
\* (s*c + q*p)/(s + q), rounded to hundredths.
C12_WeightedAverageCost ==
  [][\A i \in Slots :
       (PositionWritten(i) /\ loop[i].decision.action = "BUY") =>
         LET row == holdings[loop[i].symbol]
             q == loop[i].tradeShares
             p == loop[i].currentPrice
             c == IF row.cost_price > 0 THEN row.cost_price ELSE p
         IN /\ holdings'[loop[i].symbol].shares = row.shares + q
            /\ holdings'[loop[i].symbol].cost_price =
                 RoundDiv(row.shares * c + q * p, row.shares + q)]_vars

\* C13: a SELL of q >= 1 shares leaves the stored shares at
\* max(0, shares - q) and cost_price as it was, also when no share is left.
C13_SellKeepsCost ==
  [][\A i \in Slots :
       (PositionWritten(i) /\ loop[i].decision.action = "SELL") =>
         LET row == holdings[loop[i].symbol]
             q == loop[i].tradeShares
         IN /\ q >= 1
            /\ holdings'[loop[i].symbol].shares = Max(0, row.shares - q)
            /\ holdings'[loop[i].symbol].cost_price = row.cost_price
            /\ holdings'[loop[i].symbol].present = row.present]_vars

\* C13 witness: a SELL took the last share of a position and the position
\* still has its cost_price.
C13_SoldToZero ==
  \E i \in Slots :
    /\ RoundOver(i)
    /\ loop[i].decision.action = "SELL"
    /\ loop[i].tradeShares >= 1
    /\ run[i].holdingsMap[loop[i].symbol].shares = loop[i].tradeShares
    /\ holdings[loop[i].symbol].shares = 0
    /\ holdings[loop[i].symbol].cost_price > 0

\* Slot i takes a step of the holdings update of executeSimulatedTrade.
ExecutorStep(i) == pc[i] = "position" /\ pc'[i] # "position"

\* C14 as stated: no step of a cycle other than the executor's holdings
\* update changes any field of a position row.
C14_OnlyExecutorAsStated ==
  [][holdings' # holdings => \E i \in Slots : ExecutorStep(i)]_vars

\* C14 amended: shares and cost_price of a position (and the existence of its
\* row) change only in the executor's holdings update; the only other change
\* to a row is the price refresh of updateAllPrices writing current_price of
\* the row it is at; context building, risk evaluation and decision
\* recording change nothing.
C14_OnlyExecutor ==
  [][(holdings' # holdings /\ ~\E i \in Slots : ExecutorStep(i)) =>
       \E i \in Slots :
         /\ pc[i] = "prices"
         /\ idx[i] \in 1..Len(run[i].priceRows)
         /\ LET price == holdings'[run[i].priceRows[idx[i]]].current_price
            IN /\ price # NoValue
               /\ holdings' = [holdings EXCEPT
                    ![run[i].priceRows[idx[i]]].current_price = price]]_vars

\* C14 witness: the price refresh wrote a new current_price into a held
\* position before any trade, shares and cost_price as they were.
C14_PriceRefreshed ==
  /\ tradesTable = <<>>
  /\ holdings[XIAOMI_SYMBOL].current_price = 4000
  /\ holdings[XIAOMI_SYMBOL].shares = 1000
  /\ holdings[XIAOMI_SYMBOL].cost_price = 4800

\* The trade INSERT of slot i is being written.
TradeInserted(i) == pc[i] = "trade" /\ pc'[i] = "position"

\* The four preconditions as the call of slot i has read them.
PreconditionsAsRead(i) ==
  /\ run[i].tradingDay
  /\ run[i].globalAutoTrade
  /\ run[i].autoTrade[loop[i].symbol]
  /\ loop[i].currentPrice > 0

\* C15 as stated: a trade is written only at a moment when the day is a
\* trading day, global auto-trade and the symbol's auto-trade are true and the
\* price is positive; a round with one of them false writes no trade, leaves
\* the position unchanged, and still records its decision.
C15_TradeGateAsStated ==
  /\ [][\A i \in Slots : TradeInserted(i) =>
          /\ calendar.tradingDay
          /\ globalAutoTrade
          /\ symbolSettings[loop[i].symbol].autoTrade
          /\ loop[i].currentPrice > 0]_vars
  /\ [](\A i \in Slots : (RoundOver(i) /\ ~PreconditionsAsRead(i)) =>
          /\ TradeRowsOf(cyc[i], loop[i].symbol) = {}
          /\ PositionAsSnapshot(i)
          /\ DecisionRowsOf(cyc[i], loop[i].symbol) # {})

\* C15 amended: a trade is written for a symbol in a cycle only if the four
\* preconditions hold as the cycle read them (trading day and both auto-trade
\* settings at the start of the call, the price obtained in the round); a
\* round with one of them false writes no trade and leaves the position
\* unchanged, and when it runs to its end it has recorded exactly one
\* decision unless the cooldown was active, in which case none.
C15_TradeGate ==
  \A i \in Slots : loop[i].symbol # "" =>
    LET s == loop[i].symbol
    IN /\ (pc[i] = "position" \/ TradeRowsOf(cyc[i], s) # {}) => PreconditionsAsRead(i)
       /\ ~PreconditionsAsRead(i) =>
            /\ TradeRowsOf(cyc[i], s) = {}
            /\ PositionAsSnapshot(i)
            /\ RoundOver(i) =>
                 Cardinality(DecisionRowsOf(cyc[i], s)) =
                   (IF loop[i].riskCheck.cooldownActive THEN 0 ELSE 1)

\* C15 witness: a BUY decision in a round with global auto-trade off and the
\* other three preconditions true: recorded, not traded.
C15_GlobalOffSkipped ==
  \E i \in Slots :
    /\ PastTradeStep(i)
    /\ loop[i].decision.action = "BUY"
    /\ ~run[i].globalAutoTrade
    /\ run[i].tradingDay
    /\ run[i].autoTrade[loop[i].symbol]
    /\ loop[i].currentPrice > 0
    /\ DecisionRowsOf(cyc[i], loop[i].symbol) # {}
    /\ Logged("AUTO_TRADE_SKIPPED", loop[i].symbol, cyc[i])


(***************************************************************************)
(* technical-indicators.ts: the indicator calculator.  A series is a       *)
(* sequence whose first element is the most recent point (the query        *)
(* orders by created_at DESC).  Numbers are exact: a field the claims      *)
(* compare is a fraction [num, den] with den > 0; a field whose value      *)
(* needs a root or a long exponential average is carried as Unvalued,      *)
(* "a number".  A nullable field is <<>> for null and <<v>> otherwise.     *)
(***************************************************************************)
Null == <<>>
Some(v) == <<v>>
Unvalued == "number"
Rat(n, d) == [num |-> n, den |-> d]
RatLess(a, b) == a.num * b.den < b.num * a.den

RECURSIVE SumSeq(_)
SumSeq(s) == IF s = <<>> THEN 0 ELSE Head(s) + SumSeq(Tail(s))

RECURSIVE Gcd(_, _)
Gcd(a, b) == IF b = 0 THEN a ELSE Gcd(b, a % b)

sma(prices, period) ==
  IF Len(prices) < period THEN Null
  ELSE Some(Rat(SumSeq(SubSeq(prices, 1, period)), period))

ema(prices, period) == IF Len(prices) < period THEN Null ELSE Some(Unvalued)

\* The averages of computeRSI as [gain, loss, scale]: avgGain = gain / scale
\* and avgLoss = loss / scale, in lowest terms.
Lowest(avg) ==
  LET g == Gcd(Gcd(avg.gain, avg.loss), avg.scale)
  IN [gain |-> avg.gain \div g, loss |-> avg.loss \div g, scale |-> avg.scale \div g]

RECURSIVE WilderSmooth(_, _, _, _)
WilderSmooth(avg, changes, i, period) ==
  IF i = 0 THEN avg
  ELSE LET c == changes[i]
           next == [gain  |-> avg.gain * (period - 1) + (IF c > 0 THEN c ELSE 0) * avg.scale,
                    loss  |-> avg.loss * (period - 1) + (IF c < 0 THEN Abs(c) ELSE 0) * avg.scale,
                    scale |-> avg.scale * period]
       IN WilderSmooth(Lowest(next), changes, i - 1, period)

RsiAverages(prices, period) ==
  LET n == Min(Len(prices) - 1, period * 3)
      changes == [i \in 1..n |-> prices[i] - prices[i + 1]]
      startSlice == SubSeq(changes, n - period + 1, n)
      avgGain == SumSeq([k \in 1..period |-> IF startSlice[k] > 0 THEN startSlice[k] ELSE 0])
      avgLoss == SumSeq([k \in 1..period |-> IF startSlice[k] > 0 THEN 0 ELSE Abs(startSlice[k])])
  IN WilderSmooth(Lowest([gain |-> avgGain, loss |-> avgLoss, scale |-> period]),
                  changes, n - period, period)

\* Variant of computeRSI that returns the relative strength as a percentage.
RsiAsRelativeStrength(prices, period) ==
  IF Len(prices) < period + 1 THEN Null
  ELSE LET avg == RsiAverages(prices, period)
       IN IF avg.loss = 0 THEN Some(Rat(100, 1))
          ELSE Some(Rat(100 * avg.gain, avg.loss))

\* 100 - 100 / (1 + avgGain / avgLoss) is 100 * avgGain / (avgGain + avgLoss).
computeRSI(prices, period) ==
  IF Len(prices) < period + 1 THEN Null
  ELSE LET avg == RsiAverages(prices, period)
       IN IF avg.loss = 0 THEN Some(Rat(100, 1))
          ELSE Some(Rat(100 * avg.gain, avg.gain + avg.loss))

computeATR(prices, period) == IF Len(prices) < period + 1 THEN Null ELSE Some(Unvalued)

\* 20 * 19 times the sample variance stdDev takes the root of, for 20 values.
Spread20(values) ==
  20 * SumSeq([k \in 1..20 |-> values[k] * values[k]]) - SumSeq(values) * SumSeq(values)

\* Where (currentPrice - bollingerLower) / (bollingerUpper - bollingerLower)
\* lies among the thresholds the score reads.  With d = currentPrice - sma20
\* and s the deviation, the position is below q iff d < (4q - 2) * s; the
\* comparisons are made on squares: d = D / 20 and s * s = V / 380.
BollingerBand(currentPrice, values) ==
  LET D == 20 * currentPrice - SumSeq(values)
      V == Spread20(values)
      far   == 95 * D * D > 256 * V     \* |d| > 1.6 s
      apart == 95 * D * D > 64 * V      \* |d| > 0.8 s
  IN IF D < 0 /\ far THEN "below 0.1"
     ELSE IF D < 0 /\ apart THEN "below 0.3"
     ELSE IF D > 0 /\ far THEN "above 0.9"
     ELSE IF D > 0 /\ apart THEN "above 0.7"
     ELSE "middle"

\* The loop over the series that counts the run of rises or falls it ends on.
RECURSIVE ConsecutiveRun(_, _, _, _)
ConsecutiveRun(prices, i, consecutiveUp, consecutiveDown) ==
  IF i > Len(prices) - 1 THEN [up |-> consecutiveUp, down |-> consecutiveDown]
  ELSE IF prices[i] > prices[i + 1]
    THEN IF consecutiveDown = 0
           THEN ConsecutiveRun(prices, i + 1, consecutiveUp + 1, consecutiveDown)
           ELSE [up |-> consecutiveUp, down |-> consecutiveDown]
  ELSE IF prices[i] < prices[i + 1]
    THEN IF consecutiveUp = 0
           THEN ConsecutiveRun(prices, i + 1, consecutiveUp, consecutiveDown + 1)
           ELSE [up |-> consecutiveUp, down |-> consecutiveDown]
  ELSE [up |-> consecutiveUp, down |-> consecutiveDown]

\* ((price - ref) / ref) * 100, null when the reference is missing or not positive.
DistancePct(price, ref) ==
  IF ref > 0 THEN Some(Rat((price - ref) * 100, ref)) ELSE Null

\* Variant of emptyIndicators that reports a sell on too little data.
EmptyAsSell(price, dataPoints, high52, low52) ==
  [sma5 |-> Null, sma20 |-> Null, sma60 |-> Null, ema12 |-> Null, ema26 |-> Null,
   maShortAboveLong |-> Null, maGoldenCross |-> Null,
   priceAboveSma20 |-> Null, priceAboveSma60 |-> Null,
   rsi14 |-> Null, rsiSignal |-> Null,
   macdLine |-> Null, macdSignal |-> Null, macdHistogram |-> Null, macdBullish |-> Null,
   bollingerUpper |-> Null, bollingerMiddle |-> Null, bollingerLower |-> Null,
   bollingerPosition |-> Null,
   atr14 |-> Null, volatilityPct |-> Null, dailyReturnStdDev |-> Null,
   volumeRatio |-> Null, volumeTrend |-> Null,
   roc5 |-> Null, roc20 |-> Null,
   consecutiveUp |-> 0, consecutiveDown |-> 0,
   distanceFrom52wHigh |-> DistancePct(price, high52),
   distanceFrom52wLow |-> DistancePct(price, low52),
   technicalScore |-> 0 - 20,
   technicalSignal |-> "sell",
   dataPoints |-> dataPoints]

emptyIndicators(price, dataPoints, high52, low52) ==
  [sma5 |-> Null, sma20 |-> Null, sma60 |-> Null, ema12 |-> Null, ema26 |-> Null,
   maShortAboveLong |-> Null, maGoldenCross |-> Null,
   priceAboveSma20 |-> Null, priceAboveSma60 |-> Null,
   rsi14 |-> Null, rsiSignal |-> Null,
   macdLine |-> Null, macdSignal |-> Null, macdHistogram |-> Null, macdBullish |-> Null,
   bollingerUpper |-> Null, bollingerMiddle |-> Null, bollingerLower |-> Null,
   bollingerPosition |-> Null,
   atr14 |-> Null, volatilityPct |-> Null, dailyReturnStdDev |-> Null,
   volumeRatio |-> Null, volumeTrend |-> Null,
   roc5 |-> Null, roc20 |-> Null,
   consecutiveUp |-> 0, consecutiveDown |-> 0,
   distanceFrom52wHigh |-> DistancePct(price, high52),
   distanceFrom52wLow |-> DistancePct(price, low52),
   technicalScore |-> 0,
   technicalSignal |-> "neutral",
   dataPoints |-> dataPoints]

\* Variant of the RSI factor that reads an oversold RSI as a sell signal.
RsiOversoldAsSell(rsi14) ==
  IF rsi14 = Null THEN [score |-> 0, factors |-> 0]
  ELSE LET rsi == rsi14[1]
       IN [score |-> IF RatLess(rsi, Rat(40, 1)) THEN 0 - 20
                     ELSE IF RatLess(Rat(60, 1), rsi) THEN 20
                     ELSE 0,
           factors |-> 1]

\* The parts of the composite score before it is normalised, each as
\* [score, factors].
RsiFactor(rsi14) ==
  IF rsi14 = Null THEN [score |-> 0, factors |-> 0]
  ELSE LET rsi == rsi14[1]
       IN [score |-> IF RatLess(rsi, Rat(30, 1)) THEN 20
                     ELSE IF RatLess(rsi, Rat(40, 1)) THEN 10
                     ELSE IF RatLess(Rat(70, 1), rsi) THEN 0 - 20
                     ELSE IF RatLess(Rat(60, 1), rsi) THEN 0 - 5
                     ELSE 0,
           factors |-> 1]

FlagFactor(flag, weight) ==
  IF flag = Null THEN [score |-> 0, factors |-> 0]
  ELSE [score |-> IF flag[1] THEN weight ELSE 0 - weight, factors |-> 1]

BollingerFactor(bollingerPosition) ==
  IF bollingerPosition = Null THEN [score |-> 0, factors |-> 0]
  ELSE [score |-> CASE bollingerPosition[1] = "below 0.1" -> 15
                    [] bollingerPosition[1] = "below 0.3" -> 8
                    [] bollingerPosition[1] = "above 0.9" -> 0 - 15
                    [] bollingerPosition[1] = "above 0.7" -> 0 - 8
                    [] OTHER -> 0,
        factors |-> 1]

MomentumFactor(roc5) ==
  IF roc5 = Null THEN [score |-> 0, factors |-> 0]
  ELSE LET roc == roc5[1]
       IN [score |-> IF RatLess(Rat(5, 1), roc) THEN 8
                     ELSE IF RatLess(Rat(2, 1), roc) THEN 4
                     ELSE IF RatLess(roc, Rat(0 - 5, 1)) THEN 0 - 8
                     ELSE IF RatLess(roc, Rat(0 - 2, 1)) THEN 0 - 4
                     ELSE 0,
           factors |-> 1]

VolumeFactor(volumeRatio, roc5) ==
  IF volumeRatio = Null \/ roc5 = Null THEN [score |-> 0, factors |-> 0]
  ELSE LET rising == RatLess(Rat(13, 10), volumeRatio[1])
       IN [score |-> IF roc5[1].num > 0 /\ rising THEN 8
                     ELSE IF roc5[1].num < 0 /\ rising THEN 0 - 8
                     ELSE 0,
           factors |-> 1]

\* Math.round((score / maxPossible) * 100), clamped to -100..100; the
\* division is exact here.
NormalizedScore(score, factors) ==
  LET maxPossible == IF factors > 0 THEN factors * 20 ELSE 1
  IN Max(0 - 100, Min(100, (200 * score + maxPossible) \div (2 * maxPossible)))

TechnicalSignal(normalizedScore) ==
  IF normalizedScore > 40 THEN "strong_buy"
  ELSE IF normalizedScore > 15 THEN "buy"
  ELSE IF normalizedScore < 0 - 40 THEN "strong_sell"
  ELSE IF normalizedScore < 0 - 15 THEN "sell"
  ELSE "neutral"

Positive(x) == x > 0

\* computeTechnicalIndicators for the rows the query returned, each a
\* [price, average_volume] after toNum (0 where the column is null or no
\* number).  The series of the model are shorter than 35 points, for which
\* the code leaves the MACD signal line, histogram and flag null.
computeTechnicalIndicators(rows, currentPrice, fiftyTwoWeekHigh, fiftyTwoWeekLow) ==
  LET stored == SelectSeq([k \in 1..Len(rows) |-> rows[k].price], Positive)
      volumes == SelectSeq([k \in 1..Len(rows) |-> rows[k].average_volume], Positive)
      dataPoints == Len(stored)
  IN IF dataPoints < 5
       THEN emptyIndicators(currentPrice, dataPoints, fiftyTwoWeekHigh, fiftyTwoWeekLow)
     ELSE
       LET prices == IF currentPrice > 0 /\ 1000 * Abs(currentPrice - stored[1]) > stored[1]
                       THEN <<currentPrice>> \o stored ELSE stored
           sma5 == sma(prices, 5)
           sma20 == sma(prices, 20)
           sma60 == sma(prices, 60)
           ema12 == ema(prices, 12)
           ema26 == ema(prices, 26)
           maShortAboveLong == IF sma5 # Null /\ sma20 # Null
                                 THEN Some(RatLess(sma20[1], sma5[1])) ELSE Null
           maGoldenCross == IF sma20 # Null /\ sma60 # Null
                              THEN Some(RatLess(sma60[1], sma20[1])) ELSE Null
           priceAboveSma20 == IF sma20 # Null
                                THEN Some(RatLess(sma20[1], Rat(currentPrice, 1))) ELSE Null
           priceAboveSma60 == IF sma60 # Null
                                THEN Some(RatLess(sma60[1], Rat(currentPrice, 1))) ELSE Null
           rsi14 == computeRSI(prices, 14)
           rsiSignal == IF rsi14 = Null THEN Null
                        ELSE IF RatLess(rsi14[1], Rat(30, 1)) THEN Some("oversold")
                        ELSE IF RatLess(Rat(70, 1), rsi14[1]) THEN Some("overbought")
                        ELSE Some("neutral")
           macdLine == IF ema12 # Null /\ ema26 # Null THEN Some(Unvalued) ELSE Null
           macdValues == IF macdLine = Null THEN 0 ELSE Min(Len(prices) - 26, 30)
           macdSignalLine == IF macdValues >= 9 THEN Some(Unvalued) ELSE Null
           macdBullish == macdSignalLine
           bands == sma20 # Null /\ Len(prices) >= 20
           first20 == SubSeq(prices, 1, 20)
           bollingerPosition == IF bands /\ Spread20(first20) # 0
                                  THEN Some(BollingerBand(currentPrice, first20)) ELSE Null
           atr14 == computeATR(prices, 14)
           returns == Min(Len(prices) - 1, 20)
           volumeRatio == IF Len(volumes) >= 5
                            THEN Some(Rat(SumSeq(SubSeq(volumes, 1, 5)) * Len(volumes),
                                          5 * SumSeq(volumes)))
                            ELSE Null
           volumeTrend == IF volumeRatio = Null THEN Null
                          ELSE IF RatLess(Rat(13, 10), volumeRatio[1]) THEN Some("increasing")
                          ELSE IF RatLess(volumeRatio[1], Rat(7, 10)) THEN Some("decreasing")
                          ELSE Some("stable")
           roc5 == IF Len(prices) > 5
                     THEN Some(Rat((currentPrice - prices[6]) * 100, prices[6])) ELSE Null
           roc20 == IF Len(prices) > 20
                      THEN Some(Rat((currentPrice - prices[21]) * 100, prices[21])) ELSE Null
           consecutive == ConsecutiveRun(prices, 1, 0, 0)
           parts == <<RsiFactor(rsi14), FlagFactor(maShortAboveLong, 15),
                      FlagFactor(maGoldenCross, 10), FlagFactor(priceAboveSma20, 8),
                      FlagFactor(macdBullish, 12), BollingerFactor(bollingerPosition),
                      MomentumFactor(roc5), VolumeFactor(volumeRatio, roc5)>>
           score == SumSeq([k \in 1..Len(parts) |-> parts[k].score])
                      - (IF consecutive.up >= 4 THEN 5 ELSE 0)
                      + (IF consecutive.down >= 4 THEN 5 ELSE 0)
           factors == SumSeq([k \in 1..Len(parts) |-> parts[k].factors])
           normalizedScore == NormalizedScore(score, factors)
       IN [sma5 |-> sma5, sma20 |-> sma20, sma60 |-> sma60,
           ema12 |-> ema12, ema26 |-> ema26,
           maShortAboveLong |-> maShortAboveLong, maGoldenCross |-> maGoldenCross,
           priceAboveSma20 |-> priceAboveSma20, priceAboveSma60 |-> priceAboveSma60,
           rsi14 |-> rsi14, rsiSignal |-> rsiSignal,
           macdLine |-> macdLine, macdSignal |-> macdSignalLine,
           macdHistogram |-> macdSignalLine, macdBullish |-> macdBullish,
           bollingerUpper |-> IF bands THEN Some(Unvalued) ELSE Null,
           bollingerMiddle |-> IF bands THEN sma20 ELSE Null,
           bollingerLower |-> IF bands THEN Some(Unvalued) ELSE Null,
           bollingerPosition |-> bollingerPosition,
           atr14 |-> atr14,
           volatilityPct |-> IF atr14 # Null /\ currentPrice > 0 THEN Some(Unvalued) ELSE Null,
           dailyReturnStdDev |-> IF returns >= 5 THEN Some(Unvalued) ELSE Null,
           volumeRatio |-> volumeRatio, volumeTrend |-> volumeTrend,
           roc5 |-> roc5, roc20 |-> roc20,
           consecutiveUp |-> consecutive.up, consecutiveDown |-> consecutive.down,
           distanceFrom52wHigh |-> DistancePct(currentPrice, fiftyTwoWeekHigh),
           distanceFrom52wLow |-> DistancePct(currentPrice, fiftyTwoWeekLow),
           technicalScore |-> normalizedScore,
           technicalSignal |-> TechnicalSignal(normalizedScore),
           dataPoints |-> dataPoints]

(***************************************************************************)
(* The calculators on their own: the arguments of one call are drawn in    *)
(* the initial state and the step applies the function to them.            *)
(***************************************************************************)
Call(fn, args) == [fn |-> fn, args |-> args, result |-> <<>>]
Pending(fn) == calc.fn = fn /\ calc.result = <<>>
Returned(fn) == calc.fn = fn /\ calc.result # <<>>
CalcFrame == UNCHANGED <<clock, calendar, storeVars, schedVars, started, slotVars>>

SeriesOver(values, shortest, longest) == UNION {[1..n -> values] : n \in shortest..longest}
WithVolumes(prices, volumes) ==
  [k \in 1..Len(prices) |-> [price |-> prices[k], average_volume |-> volumes[k]]]
NoVolumes(prices) == [k \in 1..Len(prices) |-> 0]

\* 30 points falling from 100 to 71, and 30 points rising from 71 to 100.
FallingSeries == [k \in 1..30 |-> 70 + k]
RisingSeries == [k \in 1..30 |-> 101 - k]
VolumePatterns ==
  {[k \in 1..30 |-> 0], [k \in 1..30 |-> 500],
   [k \in 1..30 |-> IF k <= 5 THEN 900 ELSE 500],
   [k \in 1..30 |-> IF k <= 5 THEN 200 ELSE 500]}

IndicatorInputs ==
  {<<WithVolumes(p, NoVolumes(p)), 11, h, l>> :
     p \in SeriesOver({0, 10, 11}, 0, ShortLen), h \in {NoValue, 12}, l \in {NoValue, 9}}
  \cup UNION {{<<WithVolumes(p, v), q, 100, 71>> :
                  v \in VolumePatterns, q \in {p[1], p[1] - 1}} :
                p \in {FallingSeries, RisingSeries}}

InitIndicators ==
  /\ InitSlots
  /\ InitStore
  /\ calc \in {Call("computeTechnicalIndicators", a) : a \in IndicatorInputs}

ComputeIndicators ==
  /\ Pending("computeTechnicalIndicators")
  /\ calc' = [calc EXCEPT !.result =
       <<computeTechnicalIndicators(calc.args[1], calc.args[2], calc.args[3], calc.args[4])>>]
  /\ CalcFrame

NextIndicators == ComputeIndicators

SpecIndicators == InitIndicators /\ [][NextIndicators]_vars


\* computeRSI on its own, on series of two price levels around its 15-point
\* threshold.
InitRsi ==
  /\ InitSlots
  /\ InitStore
  /\ calc \in {Call("computeRSI", <<p, 14>>) : p \in SeriesOver({10, 11}, 14, RsiLen)}

ComputeRsi ==
  /\ Pending("computeRSI")
  /\ calc' = [calc EXCEPT !.result = <<computeRSI(calc.args[1], calc.args[2])>>]
  /\ CalcFrame

NextRsi == ComputeRsi

SpecRsi == InitRsi /\ [][NextRsi]_vars

(***************************************************************************)
(* Claims about the indicator calculator.                                  *)
(***************************************************************************)
\* The fields of TechnicalIndicators whose type admits null.
NullableFields ==
  {"sma5", "sma20", "sma60", "ema12", "ema26", "maShortAboveLong", "maGoldenCross",
   "priceAboveSma20", "priceAboveSma60", "rsi14", "rsiSignal", "macdLine",
   "macdSignal", "macdHistogram", "macdBullish", "bollingerUpper", "bollingerMiddle",
   "bollingerLower", "bollingerPosition", "atr14", "volatilityPct",
   "dailyReturnStdDev", "volumeRatio", "volumeTrend", "roc5", "roc20",
   "distanceFrom52wHigh", "distanceFrom52wLow"}
Distance52wFields == {"distanceFrom52wHigh", "distanceFrom52wLow"}
UsablePoints(rows) == Cardinality({k \in 1..Len(rows) : rows[k].price > 0})

NoFall(prices) == \A k \in 1..(Len(prices) - 1) : prices[k] >= prices[k + 1]

\* C17: for a series of at least 15 positive points RSI(14) is a number in
\* [0, 100], and it is exactly 100 when the average loss is 0, which
\* includes every series without a fall and so the flat one.
C17_RsiRange ==
  Returned("computeRSI") /\ Len(calc.args[1]) >= 15 =>
    /\ calc.result[1] # Null
    /\ LET rsi == calc.result[1][1]
       IN /\ rsi.den > 0
          /\ 0 <= rsi.num /\ rsi.num <= 100 * rsi.den
          /\ RsiAverages(calc.args[1], 14).loss = 0 \/ NoFall(calc.args[1])
                => rsi.num = 100 * rsi.den

\* A flat series of 16 points: no gain and no loss, and the RSI is 100.
C17_FlatSeries ==
  /\ Returned("computeRSI")
  /\ calc.args[1] = [k \in 1..16 |-> 10]
  /\ calc.result[1] = Some(Rat(100, 1))



\* The call is on the 30 points falling from 100 to 71 with the current price
\* at the latest of them, 71.
OnFallingSeries ==
  /\ Returned("computeTechnicalIndicators")
  /\ [k \in 1..Len(calc.args[1]) |-> calc.args[1][k].price] = FallingSeries
  /\ calc.args[2] = 71

\* C19 as stated: on the 30 points falling from 100 to 71 the calculator
\* returns consecutive_down 29, consecutive_up 0, an RSI(14) near 0, a
\* strongly negative composite score and the signal strong_sell.
C19_FallingAsStated ==
  OnFallingSeries =>
    LET v == calc.result[1]
    IN /\ v.consecutiveDown = 29 /\ v.consecutiveUp = 0
       /\ v.rsi14 # Null /\ RatLess(v.rsi14[1], Rat(1, 1))
       /\ v.technicalScore < 0 - 40
       /\ v.technicalSignal = "strong_sell"

\* C19 amended: on that series the calculator returns consecutive_down 29,
\* consecutive_up 0 and RSI(14) 0, and a composite score between 1 and 9 (9
\* when the rows carry no volume) with the signal neutral: the oversold
\* bonuses of the RSI, the Bollinger position and the run of falls outweigh
\* the penalties of the trend.
C19_Falling ==
  OnFallingSeries =>
    LET v == calc.result[1]
    IN /\ v.consecutiveDown = 29 /\ v.consecutiveUp = 0
       /\ v.rsi14 = Some(Rat(0, 1))
       /\ v.technicalScore \in 1..9
       /\ v.volumeRatio = Null => v.technicalScore = 9
       /\ v.technicalSignal = "neutral"

\* The falling series without volume data: five factors, score 9, neutral.
C19_FallingNeutral ==
  /\ OnFallingSeries
  /\ calc.result[1].volumeRatio = Null
  /\ calc.result[1].consecutiveDown = 29
  /\ calc.result[1].bollingerPosition = Some("below 0.1")
  /\ calc.result[1].technicalScore = 9
  /\ calc.result[1].technicalSignal = "neutral"


(***************************************************************************)
(* ai-decision.ts: the sentiment scorer.  A news text is a sequence of     *)
(* sentences joined by ". ", so that no keyword and no negation pattern    *)
(* matches across two of them.  Weights and scores are counted in halves   *)
(* (the weight 0.5 of "ai" is 1); the score is a fraction [num, den].      *)
(***************************************************************************)
POSITIVE_KEYWORDS ==
  <<[word |-> "beat expectations", weight |-> 6],
    [word |-> "record revenue", weight |-> 6],
    [word |-> "record profit", weight |-> 6],
    [word |-> "upgrade", weight |-> 6],
    [word |-> "buy rating", weight |-> 6],
    [word |-> "outperform", weight |-> 6],
    [word |-> "breakthrough", weight |-> 6],
    [word |-> "strong buy", weight |-> 6],
    [word |-> "revenue growth", weight |-> 4],
    [word |-> "beat", weight |-> 4], [word |-> "surge", weight |-> 4],
    [word |-> "rally", weight |-> 4], [word |-> "bullish", weight |-> 4],
    [word |-> "expansion", weight |-> 4],
    [word |-> "partnership", weight |-> 4],
    [word |-> "innovation", weight |-> 4], [word |-> "exceed", weight |-> 4],
    [word |-> "market share gain", weight |-> 4],
    [word |-> "buyback", weight |-> 4], [word |-> "repurchas", weight |-> 4],
    [word |-> "growth", weight |-> 2], [word |-> "strong", weight |-> 2],
    [word |-> "profit", weight |-> 2], [word |-> "dividend", weight |-> 2],
    [word |-> "momentum", weight |-> 2], [word |-> "cloud", weight |-> 2],
    [word |-> "ai", weight |-> 1]>>

NEGATIVE_KEYWORDS ==
  <<[word |-> "downgrade", weight |-> 6],
    [word |-> "sell rating", weight |-> 6],
    [word |-> "bankruptcy", weight |-> 6], [word |-> "fraud", weight |-> 6],
    [word |-> "investigation", weight |-> 6],
    [word |-> "default", weight |-> 6],
    [word |-> "profit warning", weight |-> 6],
    [word |-> "guidance cut", weight |-> 6], [word |-> "miss", weight |-> 4],
    [word |-> "decline", weight |-> 4], [word |-> "bearish", weight |-> 4],
    [word |-> "underperform", weight |-> 4],
    [word |-> "layoff", weight |-> 4], [word |-> "lawsuit", weight |-> 4],
    [word |-> "tariff", weight |-> 4], [word |-> "sanction", weight |-> 4],
    [word |-> "recession", weight |-> 4], [word |-> "ban", weight |-> 4],
    [word |-> "drop", weight |-> 2], [word |-> "weak", weight |-> 2],
    [word |-> "loss", weight |-> 2], [word |-> "warning", weight |-> 2],
    [word |-> "cut", weight |-> 2], [word |-> "concern", weight |-> 2],
    [word |-> "debt", weight |-> 2], [word |-> "pressure", weight |-> 2]>>

\* The regular expressions, by their position in the array.
NEGATION_PATTERNS ==
  <<"not\\s+(?:a\\s+)?declin", "no\\s+(?:significant\\s+)?loss", "not\\s+weak",
    "avoid(?:ed|ing)?\\s+loss", "despite\\s+(?:the\\s+)?(?:concern|drop|decline)",
    "not\\s+(?:a\\s+)?concern", "no\\s+downgrade">>

\* The sentences the texts of the model are made of.
Sentences ==
  {"Shares are not declining", "Record revenue", "Analysts downgrade the stock", "No downgrade expected",
   "AI cloud growth", "Quarterly report due", "Despite the drop"}

\* What the regular expressions find in each sentence: <<sentence, word, n>>
\* when the lowercased sentence holds n > 0 occurrences of the keyword, and
\* <<sentence, k>> when negation pattern k matches it.
KeywordOccurrences ==
  {<<"Record revenue", "record revenue", 1>>,
   <<"Analysts downgrade the stock", "downgrade", 1>>,
   <<"No downgrade expected", "downgrade", 1>>,
   <<"AI cloud growth", "growth", 1>>,
   <<"AI cloud growth", "cloud", 1>>,
   <<"AI cloud growth", "ai", 1>>,
   <<"Despite the drop", "drop", 1>>}
NegationOccurrences ==
  {<<"Shares are not declining", 1>>,
   <<"No downgrade expected", 7>>,
   <<"Despite the drop", 5>>}

\* lower.match(regex): the number of occurrences of the word in the text.
Matches(word, news) ==
  SumSeq([k \in 1..Len(news) |->
            IF \E o \in KeywordOccurrences : o[1] = news[k] /\ o[2] = word
              THEN (CHOOSE o \in KeywordOccurrences : o[1] = news[k] /\ o[2] = word)[3]
              ELSE 0])

\* pat.test(news)
Test(pat, news) == \E k \in 1..Len(news) : <<news[k], pat>> \in NegationOccurrences

\* Variant of the bonus that ignores the negation patterns.
NoNegationBonus(news) == 0

\* The negation bonus, 0.5 for each pattern that matches.
NegationBonus(news) == Cardinality({pat \in 1..Len(NEGATION_PATTERNS) : Test(pat, news)})

KeywordScore(keywords, news) ==
  SumSeq([k \in 1..Len(keywords) |->
            keywords[k].weight * Min(Matches(keywords[k].word, news), 3)])

\* The words of a table that occur in the text, in the order of the table.
RECURSIVE Hits(_, _)
Hits(keywords, news) ==
  IF keywords = <<>> THEN <<>>
  ELSE (IF Matches(Head(keywords).word, news) > 0 THEN <<Head(keywords).word>> ELSE <<>>)
         \o Hits(Tail(keywords), news)

\* Math.max(-1, Math.min(1, score))
ClampScore(score) ==
  IF RatLess(Rat(1, 1), score) THEN Rat(1, 1)
  ELSE IF RatLess(score, Rat(0 - 1, 1)) THEN Rat(0 - 1, 1)
  ELSE score

computeSentimentScore(news) ==
  LET positiveScore == KeywordScore(POSITIVE_KEYWORDS, news) + NegationBonus(news)
      negativeScore == KeywordScore(NEGATIVE_KEYWORDS, news)
      total == positiveScore + negativeScore
      score == IF total > 0 THEN Rat(positiveScore - negativeScore, total) ELSE Rat(0, 1)
  IN [score |-> ClampScore(score),
      positiveHits |-> Hits(POSITIVE_KEYWORDS, news),
      negativeHits |-> Hits(NEGATIVE_KEYWORDS, news)]

InitSentiment ==
  /\ InitSlots
  /\ InitStore
  /\ calc \in {Call("computeSentimentScore", <<news>>) :
                news \in SeriesOver(Sentences, 0, MaxSentences)}

ComputeSentiment ==
  /\ Pending("computeSentimentScore")
  /\ calc' = [calc EXCEPT !.result = <<computeSentimentScore(calc.args[1])>>]
  /\ CalcFrame

NextSentiment == ComputeSentiment

SpecSentiment == InitSentiment /\ [][NextSentiment]_vars

\* No positive and no negative keyword occurs in the text.
ZeroKeywordHits(news) ==
  /\ \A k \in 1..Len(POSITIVE_KEYWORDS) : Matches(POSITIVE_KEYWORDS[k].word, news) = 0
  /\ \A k \in 1..Len(NEGATIVE_KEYWORDS) : Matches(NEGATIVE_KEYWORDS[k].word, news) = 0
NegationMatched(news) == \E pat \in 1..Len(NEGATION_PATTERNS) : Test(pat, news)

SizedTrade(decision, currentPrice, currentShares) ==
  LET tradeShares == TradeShares(decision, currentPrice, currentShares)
  IN IF tradeShares <= 0 THEN Null
     ELSE Some([symbol |-> decision.symbol, action |-> decision.action,
                shares |-> tradeShares, price |-> currentPrice])

SizingInputs ==
  {<<[symbol |-> s, action |-> a, confidence |-> c], p, n>> :
     s \in Symbols, a \in {"BUY", "SELL", "HOLD"}, c \in 0..100,
     p \in {2900, 41250, 290000, 290001}, n \in {0, 1, 3, 4, 7, 400, 1000}}

InitSizing ==
  /\ InitSlots
  /\ InitStore
  /\ calc \in {Call("executeSimulatedTrade", a) : a \in SizingInputs}

ComputeSizing ==
  /\ Pending("executeSimulatedTrade")
  /\ calc' = [calc EXCEPT !.result =
       <<SizedTrade(calc.args[1], calc.args[2], calc.args[3])>>]
  /\ CalcFrame

NextSizing == ComputeSizing

SpecSizing == InitSizing /\ [][NextSizing]_vars

\* C20: a BUY of MSFT is sized floor(2900 / price), and is no trade when that
\* is 0; a BUY of any other symbol is sized max(200, floor(confidence / 100 x
\* 1000)), which for a confidence from 0 to 100 lies between 200 and 1000.
\* Prices are in hundredths, so 2900 is 290000.
C20_BuySize ==
  Returned("executeSimulatedTrade") /\ calc.args[1].action = "BUY" =>
    LET trade == calc.result[1]
        price == calc.args[2]
        confidence == calc.args[1].confidence
    IN IF calc.args[1].symbol = MSFT_SYMBOL
         THEN IF price > 290000 THEN trade = Null
              ELSE /\ trade # Null
                   /\ trade[1].shares * price <= 290000
                   /\ 290000 < (trade[1].shares + 1) * price
         ELSE /\ trade # Null
              /\ 200 <= trade[1].shares /\ trade[1].shares <= 1000
              /\ trade[1].shares = (IF confidence < 20 THEN 200 ELSE 10 * confidence)

\* A BUY of the other symbol at confidence 10 is raised to the lot of 200.
C20_MinimumLot ==
  /\ Returned("executeSimulatedTrade")
  /\ calc.args[1] = [symbol |-> XIAOMI_SYMBOL, action |-> "BUY", confidence |-> 10]
  /\ calc.result[1] # Null
  /\ calc.result[1][1].shares = 200


TechSupport(bollingerPosition, rsi14) ==
  \/ bollingerPosition # Null /\ RatLess(bollingerPosition[1], Rat(3, 10))
  \/ rsi14 # Null /\ RatLess(rsi14[1], Rat(40, 1))

applyCostBasisProtection(currentPrice, costPrice, shares, bollingerPosition, rsi14) ==
  CostBasisDelta(currentPrice, costPrice, shares, TechSupport(bollingerPosition, rsi14))

\* What the fallback path computes for a position: the risk flags, the delta
\* of the cost-basis protection and the signal strength (both null when the
\* stop-loss override returns before them), and the decision.
RuleDecision(symbol, currentPrice, costPrice, shares, ext, bollingerPosition, rsi14, isQuarterEnd) ==
  LET riskCheck == checkRiskConstraints(symbol, currentPrice, CurrencyOf(symbol),
                                        costPrice, shares, FALSE, FALSE)
      techSupport == TechSupport(bollingerPosition, rsi14)
  IN [riskCheck |-> riskCheck,
      signalDelta |-> IF riskCheck.stopLossTriggered THEN Null
                      ELSE Some(applyCostBasisProtection(currentPrice, costPrice, shares,
                                                         bollingerPosition, rsi14)),
      signalStrength |-> IF riskCheck.stopLossTriggered THEN Null
                         ELSE Some(ClampForMaxPosition(riskCheck.maxPositionReached,
                                     SignalStrength(currentPrice, costPrice, shares,
                                                    ext, techSupport))),
      decision |-> analyzeSignals(symbol, currentPrice, costPrice, shares, ext,
                                  techSupport, isQuarterEnd, riskCheck)]

FallbackInputs ==
  {<<s, p, c, n, e, b, r, q>> :
     s \in Symbols, p \in {4080, 4081, 4500, 4800, 5000}, c \in {NoValue, 4800},
     n \in {0, 1000}, e \in {0 - 305, 0 - 97, 0, 26, 88, 412},
     b \in {Null, Some(Rat(25, 100)), Some(Rat(1, 2))},
     r \in {Null, Some(Rat(35, 1)), Some(Rat(55, 1))}, q \in BOOLEAN}

InitFallback ==
  /\ InitSlots
  /\ InitStore
  /\ calc \in {Call("analyzeSignals", a) : a \in FallbackInputs}

DecideByRules ==
  /\ Pending("analyzeSignals")
  /\ calc' = [calc EXCEPT !.result =
       <<RuleDecision(calc.args[1], calc.args[2], calc.args[3], calc.args[4],
                      calc.args[5], calc.args[6], calc.args[7], calc.args[8])>>]
  /\ CalcFrame

NextFallback == DecideByRules

SpecFallback == InitFallback /\ [][NextFallback]_vars

\* The position of the scenario: 1000 shares at cost 48, price 40.80,
\* Bollinger position 0.25 and RSI 35.
ScenarioB ==
  /\ Returned("analyzeSignals")
  /\ calc.args[2] = 4080 /\ calc.args[3] = 4800 /\ calc.args[4] = 1000
  /\ calc.args[6] = Some(Rat(25, 100)) /\ calc.args[7] = Some(Rat(35, 1))

\* C22: cost-basis protection yields +15 when price / cost < 0.95 with
\* Bollinger position < 0.3 or RSI < 40, -10 when price / cost > 1.03, and 0
\* otherwise or when no shares are held or the cost is missing; and for the
\* position at cost 48 and price 40.80 with Bollinger position 0.25 and RSI
\* 35 the +15 reaches the fallback decision: the stop-loss override does not
\* come before it at exactly -15%.
C22_AverageDownBonus ==
  /\ Returned("analyzeSignals") =>
       LET price == calc.args[2]
           cost == calc.args[3]
           support == TechSupport(calc.args[6], calc.args[7])
           delta == applyCostBasisProtection(price, cost, calc.args[4],
                                             calc.args[6], calc.args[7])
       IN delta = (IF cost = NoValue \/ calc.args[4] <= 0 THEN 0
                   ELSE IF 100 * price < 95 * cost /\ support THEN 15
                   ELSE IF 100 * price > 103 * cost THEN 0 - 10
                   ELSE 0)
  /\ ScenarioB =>
       /\ ~calc.result[1].riskCheck.stopLossTriggered
       /\ calc.result[1].signalDelta = Some(15)


\* The fallback path ran past the stop-loss override: the whole part f of
\* |signalStrength|, which is in tenths.
WholeStrength == CHOOSE f \in 0..100 :
  LET magnitude == Abs(calc.result[1].signalStrength[1])
  IN 10 * f <= magnitude /\ magnitude < 10 * (f + 1)
RulesDecided == Returned("analyzeSignals") /\ calc.result[1].signalStrength # Null

ModelCalled(i) == loop[i].llm # ""

\* C23: the external model is called at most once for each instrument of a
\* cycle and never again after a failure: the outcome of the call is written
\* only by the decision step of a round that has no outcome yet and is not
\* in cooldown, a failed call gives in the same step the decision of the
\* rules with source fallback_rules and logs DEEPSEEK_FALLBACK, and a round
\* skipped by cooldown has no call.
C23_NoRetry ==
  /\ [][\A i \in Slots :
          loop'[i].llm # loop[i].llm =>
            \/ /\ pc[i] = "quote"
               /\ ~ModelCalled(i)'
            \/ /\ pc[i] = "decide" /\ pc'[i] = "record"
               /\ ~ModelCalled(i)
               /\ ~loop[i].riskCheck.cooldownActive
               /\ loop'[i].llm \in {"ok"} \cup LlmFailures
               /\ loop'[i].llm = "ok" => loop'[i].decisionSource = "deepseek"
               /\ loop'[i].llm \in LlmFailures =>
                    /\ loop'[i].decisionSource = "fallback_rules"
                    /\ loop'[i].decision.mdSource = "fallback_rules"
                    /\ loop'[i].decision.mdError = loop'[i].llm
                    /\ Logged("DEEPSEEK_FALLBACK", loop[i].symbol, cyc[i])']_vars
  /\ [](\A i \in Slots :
          /\ ModelCalled(i) => pc[i] # "decide"
          /\ (loop[i].symbol # "" /\ loop[i].riskCheck.cooldownActive) => ~ModelCalled(i)
          /\ (loop[i].symbol # "" /\ Logged("COOLDOWN_SKIP", loop[i].symbol, cyc[i])
                /\ RoundOver(i)) => ~ModelCalled(i))

\* A call that timed out: the decision of the rules is recorded for that
\* round, which is now at its trade step.
C23_FallbackAfterOneCall ==
  \E i \in Slots :
    /\ pc[i] = "trade"
    /\ loop[i].llm = "timeout"
    /\ \E k \in DecisionRowsOf(cyc[i], loop[i].symbol) :
         decisionsTable[k].source = "fallback_rules"


\* The steps of one pass of the for loop of runDecisions, in source order.
LoopOrder == <<"quote", "news", "context", "risk", "decide", "record", "trade", "position">>
Rank(step) == CHOOSE k \in 1..Len(LoopOrder) : LoopOrder[k] = step

\* C24: within one cycle the instruments are processed one after another in
\* the order quote, news, context, decision, decision record, trade: a step
\* of a cycle inside the loop goes to the next step of the same instrument,
\* or leaves the loop by a throw, or goes on to the next instrument (or the
\* end of the loop) from the trade step, the position update or the cooldown
\* skip only; and a trade row of a cycle and symbol is written only after
\* the decision row of that cycle and symbol.
C24_StrictOrder ==
  /\ [][\A i \in Slots :
          (pc[i] \in LoopPcs /\ (pc'[i] # pc[i] \/ idx'[i] # idx[i])) =>
            \/ /\ idx'[i] = idx[i]
               /\ pc'[i] \in LoopPcs
               /\ Rank(pc'[i]) = Rank(pc[i]) + 1
            \/ /\ idx'[i] = idx[i]
               /\ pc'[i] \notin RunDecisionsPcs
            \/ /\ idx'[i] = idx[i] + 1
               /\ pc'[i] = (IF idx'[i] > Len(run[i].trackedSettings)
                              THEN "rd_complete" ELSE "quote")
               /\ \/ pc[i] \in {"trade", "position"}
                  \/ pc[i] = "decide" /\ loop[i].riskCheck.cooldownActive]_vars
  /\ [](\A i \in Slots :
          /\ pc[i] \in {"trade", "position"} =>
               DecisionRowsOf(cyc[i], Symbol(i)) # {}
          /\ pc[i] \in LoopPcs \ {"quote"} => loop[i].symbol = Symbol(i))
  /\ [](\A k \in 1..Len(tradesTable) :
          DecisionRowsOf(tradesTable[k].cycle, tradesTable[k].symbol) # {})
  /\ [][\A i \in Slots :
          (pc[i] \in LoopPcs /\ tradesTable' # tradesTable /\ pc'[i] # pc[i]) =>
            /\ pc[i] = "trade"
            /\ DecisionRowsOf(cyc[i], Symbol(i)) # {}]_vars

\* The second instrument of a cycle is at its quote step after the first
\* one's decision and trade were recorded.
C24_SecondInstrumentAfterTrade ==
  \E i \in Slots :
    /\ pc[i] = "quote"
    /\ idx[i] = 2
    /\ DecisionRowsOf(cyc[i], run[i].trackedSettings[1]) # {}
    /\ TradeRowsOf(cyc[i], run[i].trackedSettings[1]) # {}


\* C26: under any interleaving of cycles the number of trades recorded for
\* one symbol within one calendar day never exceeds the daily trade limit,
\* also when the daily-count query fails (the count is then taken as 0) and
\* when two cycles read the count before either writes its trade.
C26_DailyLimitNeverExceeded ==
  \A s \in Symbols : DailyTradeCount(tradesTable, tradesBefore, s) <= DAILY_TRADE_LIMIT


\* C27: any two decisions recorded for the same symbol are at least the
\* cooldown window (30 minutes) apart, for every interleaving of cycles and
\* also when the cooldown query fails.
C27_DecisionsCooldownApart ==
  \A j, k \in 1..Len(decisionsTable) :
    (j # k /\ decisionsTable[j].symbol = decisionsTable[k].symbol) =>
      Abs(decisionsTable[j].createdAt - decisionsTable[k].createdAt)
        >= DECISION_COOLDOWN_MIN


\* Shares bought minus shares sold by the first k rows of "st-trades" for a
\* symbol.
RECURSIVE NetShares(_, _, _)
NetShares(table, symbol, k) ==
  IF k = 0 THEN 0
  ELSE NetShares(table, symbol, k - 1)
       + (IF table[k].symbol # symbol THEN 0
          ELSE IF table[k].action = "BUY" THEN table[k].shares
          ELSE 0 - table[k].shares)

\* C28: the ledger stays consistent with the trade log: once a cycle has
\* read its snapshot and no execution is between its trade INSERT and its
\* holdings update, each symbol's share count equals the shares it had at
\* the start plus the recorded BUY shares minus the recorded SELL shares,
\* also when a store write fails between the two writes.
C28_LedgerMatchesTradeLog ==
  (loop[1].symbol # "" /\ pc[1] # "position") =>
    \A s \in Symbols :
      holdings[s].shares =
        run[1].holdingsMap[s].shares + NetShares(tradesTable, s, Len(tradesTable))


\* An invocation of runTradingCycle that took the guard has returned.
CycleFinished(i) == entry[i].kind = "scheduler" /\ pc[i] \in {"done", "failed"}

\* C29: the re-entrancy guard is always released: the step in which a body
\* of runTradingCycle finishes (success log, early return with no market
\* open, or catch block after an error in the price update or the decision
\* run) leaves isRunning false, isRunning is true only while a body
\* executes, and a tick that finds no body executing starts a cycle.
C29_GuardReleased ==
  /\ [][\A i \in Slots :
          (InSchedulerBody(i) /\ CycleFinished(i)') => ~isRunning']_vars
  /\ [](isRunning => \E i \in Slots : InSchedulerBody(i))
  /\ []((\E i \in Slots : CycleFinished(i)) /\ ~(\E j \in Slots : InSchedulerBody(j))
          => ~PreviousCycleRunning)
  /\ [][\A i \in Slots :
          (/\ cyc'[i] # cyc[i]
           /\ entry'[i].kind = "scheduler"
           /\ ~(\E j \in Slots : InSchedulerBody(j)))
          => (pc'[i] = "sched_settings" /\ isRunning')]_vars

\* A cycle failed inside the decision run and the guard is free.
C29_FailedCycleReleased ==
  \E i \in Slots :
    /\ CycleFinished(i)
    /\ pc[i] = "failed"
    /\ idx[i] >= 1
    /\ ~isRunning


\* A scheduler invocation of runTradingCycle begins in this step.
SchedulerCycleStarts(i) == cyc'[i] # cyc[i] /\ entry'[i].kind = "scheduler"

\* C30: the scheduler holds at most one interval timer, and after
\* stopScheduler returns no trading cycle is started, the startup cycle
\* scheduled 5 seconds after startScheduler included, until startScheduler
\* is called again.
C30_StopHaltsCycles ==
  /\ [][startupTimers' > startupTimers => ~schedulerTimer]_vars
  /\ [][\A i \in Slots : SchedulerCycleStarts(i) => schedulerTimer]_vars


=============================================================================
